---- MODULE Spec2Model ----
(***************************************************************************)
(* A model of the rikkaka/ac trading core: the backtest Reporter, the      *)
(* timestamp-ordered stream merger, the sandbox broker and the             *)
(* auto-reconnecting duplex.                                               *)
(*                                                                         *)
(* Numbers.  The source computes with f64 prices, sizes and cash.  The     *)
(* model uses integers: a price is a number of ticks, a size a number of   *)
(* lots, a fee or slippage rate a number of 1/RateScale, and cash and      *)
(* portfolio values are kept in units of 1/CashUnit so that every product  *)
(* and the mid price of a one-lot BBO are exact.  Rounding error of f64 is *)
(* outside the model.  Timestamps are u64 milliseconds far below 2^64, so  *)
(* no wrap-around is modelled for them.                                    *)
(***************************************************************************)
EXTENDS Integers, Sequences, FiniteSets, TLC

VARIABLES
    \* ---- Reporter driven on its own (src/ac_core/src/backtest.rs:365-425)
    reporter,       \* the Reporter struct
    r_calls,        \* history: the calls made on the reporter, in order
    \* ---- TsStreamMerger (src/utils/src/lib.rs:65-150)
    stream1,        \* items stream 1 has not yet yielded
    stream2,        \* items stream 2 has not yet yielded
    buffer1,        \* Option<T1>: <<>> is None, <<x>> is Some(x)
    buffer2,        \* Option<T2>
    stream1_ended,
    stream2_ended,
    m_src,          \* history: the two input sequences as first given
    m_out,          \* history: the items poll_next has returned, in order
    m_ret,          \* history: what the last poll_next returned
    \* ---- SandboxBroker (src/ac_core/src/backtest.rs:27-249)
    limit_orders,       \* FxHashMap<OrderId, LimitOrder>: a function on the ids held
    broker_events_buf,  \* VecDeque<BrokerEvent<D>>
    inst_matcher,       \* FxHashMap<InstId, M>: the latest Bbo of each instrument
    dp_index,           \* data_provider: the number of items it has yielded
    dp_ended,           \* data_provider: it has returned None
    b_ts,               \* ts
    cash,               \* cash, in units of 1/CashUnit
    tcm,                \* transaction_cost_model, rates in units of 1/RateScale
    portfolio,          \* Portfolio.positions: a function on the instruments held
    emitted,            \* history: the events poll_next has returned, in order
    n_inputs,           \* history: client events and data items handled so far
    b_last,             \* history: the last client event or poll handled
    \* ---- AutoReconnect (src/data_center/src/utils.rs:139-286)
    curr_conn,      \* Option<S>: the number of the connection held
    conn_future,    \* Option<Fut>: the connection it will give, and whether it has completed
    sink_buf,       \* VecDeque<I>
    n_made,         \* make_conn: the number of futures it has made since new()
    conn_pos,       \* the number of messages the held connection's stream has yielded
    a_pc,           \* the poll_* call that returned Poll::Pending inside its loop, or "idle"
    a_sent,         \* history: the items given to start_send, in order
    a_accepted,     \* history: the items the inner sinks accepted, in order
    a_recv,         \* history: the messages poll_next has returned, in order
    a_ret,          \* history: what the last poll_* call returned
    \* ---- SignalExecuteStrategy over NaiveLimitExecutor
    \*      (src/ac_core/src/strategy.rs, src/ac_core/src/strategy/executors.rs)
    executor,           \* the NaiveLimitExecutor struct
    s_last_event_ts,    \* SignalExecuteStrategy.last_event_ts
    s_n,                \* history: the number of on_event calls made
    s_call,             \* history: the last on_event call and what it returned
    s_ids,              \* history: the order ids get_next_order_id has returned
    s_emit_ts,          \* history: Some(ts) of the last non-empty batch returned
    \* ---- Engine::run (src/ac_core/src/lib.rs:321-329)
    e_pc,               \* where the loop body stands: "poll", "strategy", "feed", "done"
    e_event,            \* Option: the broker event taken in this iteration
    e_batch,            \* the client events of this iteration not yet fed to the broker
    \* ---- the stream adapters of data_center, one record each
    hb,                 \* Heartbeat: the wrapper, the clock and the history of its polls
    wsa,                \* OkxWsStreamAdapted: its two inner streams and what it has yielded
    conn,               \* connect: the connection attempt the factory future is making
    codec,              \* OkxWsStream: the frame its poll_next is looking at and what it returned
    l1s,                \* Level1Stream: its accumulators and the history of its input
    det,                \* two runs of a SandboxBroker: the first run's inputs and outcomes, replayed by the second
    rc,                 \* AutoReconnect without the numbering of its connections
    seam,               \* the Terminal's phase and the timestamps OfiMomentum keeps
    nb                  \* SandboxBroker::new at work: the data left, the matchers drawn

rvars == <<reporter, r_calls>>
mvars == <<stream1, stream2, buffer1, buffer2, stream1_ended, stream2_ended,
           m_src, m_out, m_ret>>
bvars == <<limit_orders, broker_events_buf, inst_matcher, dp_index, dp_ended,
           b_ts, cash, tcm, portfolio, emitted, n_inputs, b_last>>
avars == <<curr_conn, conn_future, sink_buf, n_made, conn_pos, a_pc, a_sent,
           a_accepted, a_recv, a_ret>>
svars == <<executor, s_last_event_ts, s_n, s_call, s_ids, s_emit_ts>>
evars == <<e_pc, e_event, e_batch>>
nvars == <<hb, wsa, conn, codec, l1s, det, rc, seam, nb>>
vars == <<rvars, mvars, bvars, avars, svars, evars, nvars>>

\* The adapters of data_center while another component is driven.
NParked ==
    /\ hb = <<>>
    /\ wsa = <<>>
    /\ conn = <<>>
    /\ codec = <<>>
    /\ l1s = <<>>
    /\ det = <<>>
    /\ rc = <<>>
    /\ seam = <<>>
    /\ nb = <<>>

None == <<>>
Some(x) == <<x>>

(***************************************************************************)
(*                              Reporter                                   *)
(***************************************************************************)

\* Bounds of the reporter's inputs.
MaxCalls == 3
MaxTsK == 9
Frequencies == {2, 100}
Values == {10, 30}

Record(ts, value) == [ts |-> ts, value |-> value]

\* Reporter::new: the frequency in milliseconds, everything else Default.
ReporterNew(f) ==
    [value_history |-> <<>>, frequency |-> f, last_ts_bin |-> 0,
     value_buf |-> 0, is_initialized |-> FALSE, is_end |-> FALSE]

\* Reporter::pub_buf_record
PubBufRecord(r) ==
    [r EXCEPT !.value_history =
                  Append(@, Record(r.last_ts_bin + r.frequency, r.value_buf)),
              !.last_ts_bin = @ + r.frequency]

\* The while loop of Reporter::insert.
RECURSIVE PubWhile(_, _)
PubWhile(r, ts) ==
    IF r.last_ts_bin + r.frequency < ts
    THEN PubWhile(PubBufRecord(r), ts)
    ELSE r

\* A slip: the buffer is overwritten before the skipped bins are published.
ReporterInsert_BufFirst(r, ts, value) ==
    IF ~r.is_initialized
    THEN [r EXCEPT !.last_ts_bin = (ts \div r.frequency) * r.frequency,
                   !.value_buf = value,
                   !.is_initialized = TRUE]
    ELSE PubWhile([r EXCEPT !.value_buf = value], ts)

\* Reporter::insert
ReporterInsert(r, ts, value) ==
    IF ~r.is_initialized
    THEN [r EXCEPT !.last_ts_bin = (ts \div r.frequency) * r.frequency,
                   !.value_buf = value,
                   !.is_initialized = TRUE]
    ELSE LET r1 == IF ts > r.last_ts_bin + r.frequency
                   THEN PubWhile(r, ts)
                   ELSE r
         IN  [r1 EXCEPT !.value_buf = value]

\* Reporter::end
ReporterEnd(r) ==
    IF r.is_end
    THEN r
    ELSE LET r1 == [r EXCEPT !.is_end = TRUE]
         IN  IF Len(r1.value_history) = 0
             THEN [r1 EXCEPT !.value_history =
                      Append(@, Record(r1.last_ts_bin + r1.frequency,
                                       r1.value_buf))]
             ELSE PubBufRecord(r1)

InsertCall(ts, value) == [op |-> "insert", ts |-> ts, value |-> value]
EndCall == [op |-> "end", ts |-> 0, value |-> 0]

\* Timestamps offered to insert: every half bin up to MaxTsK half bins.
TsInputs(f) == {k * (f \div 2) : k \in 0..MaxTsK}

RInit ==
    /\ \E f \in Frequencies : reporter = ReporterNew(f)
    /\ r_calls = <<>>

RParked ==
    /\ reporter = ReporterNew(1)
    /\ r_calls = <<>>

RInsert ==
    /\ Len(r_calls) < MaxCalls
    /\ \E ts \in TsInputs(reporter.frequency), value \in Values :
          /\ reporter' = ReporterInsert(reporter, ts, value)
          /\ r_calls' = Append(r_calls, InsertCall(ts, value))

REnd ==
    /\ Len(r_calls) < MaxCalls
    /\ reporter' = ReporterEnd(reporter)
    /\ r_calls' = Append(r_calls, EndCall)

(***************************************************************************)
(*                            TsStreamMerger                               *)
(***************************************************************************)

MaxStreamLen == 2
MergeTs == {1, 2, 3}

\* An item of stream s: its position k in that stream and its timestamp.
Item(s, k, ts) == [src |-> s, k |-> k, ts |-> ts]

IsSortedTs(q) == \A i \in 1..(Len(q) - 1) : q[i].ts <= q[i + 1].ts

\* The streams the merger is given: each non-decreasing in get_ts().
StreamsOf(s) ==
    { q \in UNION {[1..n -> {Item(s, k, ts) : k \in 1..MaxStreamLen, ts \in MergeTs}]
                      : n \in 0..MaxStreamLen} :
        /\ \A i \in 1..Len(q) : q[i].k = i
        /\ IsSortedTs(q) }

\* One poll of an inner stream that is not pending: Ready(Some(head)) or
\* Ready(None).  Returns <<buffer, ended, rest of the stream>>.
PollInner(stream) ==
    IF Len(stream) > 0
    THEN <<Some(Head(stream)), FALSE, Tail(stream)>>
    ELSE <<None, TRUE, stream>>

\* The comparison of poll_next when both buffers are full, with < for <=.
TakesFirst_Strict(item1, item2) == item1.ts < item2.ts

\* poll_next, lines 133: stream 1 goes first on item1.get_ts() <= item2.get_ts().
TakesFirst(item1, item2) == item1.ts <= item2.ts

\* The guard of the first refill without its test of stream1_ended.
NeedsPoll1_NoEndTest == buffer1 = None

\* poll_next, line 113: stream 1 is polled when its slot is empty and it has
\* not ended.
NeedsPoll1 == buffer1 = None /\ ~stream1_ended

\* poll_next, line 122, evaluated after the first refill.
NeedsPoll2 == buffer2 = None /\ ~stream2_ended

MInit ==
    /\ \E q1 \in StreamsOf(1), q2 \in StreamsOf(2) :
          /\ stream1 = q1
          /\ stream2 = q2
          /\ m_src = <<q1, q2>>
    /\ buffer1 = None
    /\ buffer2 = None
    /\ stream1_ended = FALSE
    /\ stream2_ended = FALSE
    /\ m_out = <<>>
    /\ m_ret = [kind |-> "none", waited |-> 0]

MParked ==
    /\ stream1 = <<>>
    /\ stream2 = <<>>
    /\ m_src = <<<<>>, <<>>>>
    /\ buffer1 = None
    /\ buffer2 = None
    /\ stream1_ended = FALSE
    /\ stream2_ended = FALSE
    /\ m_out = <<>>
    /\ m_ret = [kind |-> "none", waited |-> 0]

\* TsStreamMerger::poll_next.  pend1 and pend2 say whether the inner stream,
\* if polled, answers Poll::Pending this time.
MergerPollNext ==
    \E pend1 \in BOOLEAN, pend2 \in BOOLEAN :
       IF NeedsPoll1 /\ pend1
       THEN /\ m_ret' = [kind |-> "pending", waited |-> 1]
            /\ UNCHANGED <<stream1, stream2, buffer1, buffer2, stream1_ended,
                           stream2_ended, m_src, m_out>>
       ELSE
         LET p1 == IF NeedsPoll1 THEN PollInner(stream1)
                   ELSE <<buffer1, stream1_ended, stream1>>
             b1 == p1[1]
         IN
         IF NeedsPoll2 /\ pend2
         THEN /\ buffer1' = b1
              /\ stream1_ended' = p1[2]
              /\ stream1' = p1[3]
              /\ m_ret' = [kind |-> "pending", waited |-> 2]
              /\ UNCHANGED <<stream2, buffer2, stream2_ended, m_src, m_out>>
         ELSE
           LET p2 == IF NeedsPoll2 THEN PollInner(stream2)
                     ELSE <<buffer2, stream2_ended, stream2>>
               b2 == p2[1]
               take1 == \/ b1 # None /\ b2 = None
                        \/ b1 # None /\ b2 # None /\ TakesFirst(b1[1], b2[1])
               take2 == b2 # None /\ ~take1
           IN
           /\ stream1' = p1[3]
           /\ stream2' = p2[3]
           /\ stream1_ended' = p1[2]
           /\ stream2_ended' = p2[2]
           /\ buffer1' = IF take1 THEN None ELSE b1
           /\ buffer2' = IF take2 THEN None ELSE b2
           /\ m_out' = IF take1 THEN Append(m_out, b1[1])
                       ELSE IF take2 THEN Append(m_out, b2[1])
                       ELSE m_out
           /\ m_ret' = IF take1 \/ take2 THEN [kind |-> "item", waited |-> 0]
                       ELSE IF p1[2] /\ p2[2] THEN [kind |-> "end", waited |-> 0]
                       ELSE [kind |-> "pending", waited |-> 0]
           /\ UNCHANGED m_src

(***************************************************************************)
(*                            SandboxBroker                                *)
(***************************************************************************)

\* The number of client events and market-data items of a run.
MaxInputs == 3
\* Rates are multiples of 1/RateScale; money is kept in units of 1/CashUnit,
\* which makes fee products and the mid price of a one-lot BBO exact.
RateScale == 10
CashUnit == 2 * RateScale * RateScale
InitCash == 100
ReportFrequency == 2
InitTs == 1

Insts == {"EthUsdtSwap"}
OrderIds == {1, 2}
Prices == {1, 2, 3}
LimitSizes == {1}
MarketSizes == {1}
AmendSizes == {2}
\* <<bid_price, ask_price>> of the quotes the data provider can yield, and
\* the time that passes between two of them.
Quotes == {<<1, 2>>, <<3, 4>>}
\* The quote SandboxBroker::new has drawn for every instrument.
InitQuote == <<1, 2>>
TsSteps == {1, 3}
CostModels == {[maker_fee |-> 0, taker_fee |-> 0, slippage |-> 0],
               [maker_fee |-> 1, taker_fee |-> 2, slippage |-> 1]}

\* data::Bbo, with one lot on each side as the tests' create_mock_bbo.
Bbo(ts, inst, bid, ask) ==
    [ts |-> ts, instrument_id |-> inst, bid_price |-> bid, bid_size |-> 1,
     ask_price |-> ask, ask_size |-> 1]

LimitOrder(id, inst, price, size, side) ==
    [order_id |-> id, instrument_id |-> inst, price |-> price, size |-> size,
     filled_size |-> 0, side |-> side]

MarketOrder(id, inst, size, side) ==
    [order_id |-> id, instrument_id |-> inst, size |-> size, side |-> side]

OrderLimit(o) == [kind |-> "Limit", order |-> o]
OrderMarket(o) == [kind |-> "Market", order |-> o]

\* BrokerEvent.  The field at is history: the index of the market-data item
\* whose data step made the event, 0 for an event made by a client event.
EvFill(fill, at) == [type |-> "Fill", fill |-> fill, at |-> at]
EvData(data, at) == [type |-> "Data", data |-> data, at |-> at]
EvPlaced(order) == [type |-> "Placed", order |-> order, at |-> 0]
EvAmended(order) == [type |-> "Amended", order |-> order, at |-> 0]
EvCanceled(id) == [type |-> "Canceled", order_id |-> id, at |-> 0]

\* ClientEvent, as backtest.rs matches it.
PlaceOrder(order) == [type |-> "PlaceOrder", order |-> order]
AmendOrder(order) == [type |-> "AmendOrder", order |-> order]
CancelOrder(id) == [type |-> "CancelOrder", order_id |-> id]

ClientEvents ==
    {PlaceOrder(OrderMarket(MarketOrder(id, i, sz, sd))) :
        id \in {1}, i \in Insts, sz \in MarketSizes, sd \in BOOLEAN}
    \cup
    {PlaceOrder(OrderLimit(LimitOrder(id, i, p, sz, sd))) :
        id \in OrderIds, i \in Insts, p \in Prices, sz \in LimitSizes, sd \in BOOLEAN}
    \cup
    {AmendOrder(OrderLimit([LimitOrder(id, i, p, sz, TRUE) EXCEPT !.filled_size = 1])) :
        id \in OrderIds, i \in Insts, p \in Prices, sz \in AmendSizes}
    \cup
    {AmendOrder(OrderMarket(MarketOrder(1, i, 1, TRUE))) : i \in Insts}
    \cup
    {CancelOrder(id) : id \in OrderIds}

\* Removal of a key from a map.
MapRemove(m, k) == [x \in DOMAIN m \ {k} |-> m[x]]
\* Insertion into a map, replacing the value of a key that is present.
MapInsert(m, k, v) == [x \in DOMAIN m \cup {k} |-> IF x = k THEN v ELSE m[x]]

\* Every order in which a loop can visit the elements of S.
OrdersOf(S) ==
    {q \in [1..Cardinality(S) -> S] : \A i, j \in DOMAIN q : q[i] = q[j] => i = j}

\* impl MatchOrder for Bbo: fill_market_order
FillMarketOrder(matcher, order) ==
    LET bbo == matcher[order.instrument_id]
    IN  [order_id |-> order.order_id,
         instrument_id |-> order.instrument_id,
         side |-> order.side,
         price |-> IF order.side THEN bbo.ask_price ELSE bbo.bid_price,
         filled_size |-> order.size,
         acc_filled_size |-> order.size,
         exec_type |-> "Taker",
         state |-> "Filled"]

\* A slip: every limit fill, maker or taker, clears at the touch.
LimitFillPrice_Touch(bbo, order, exec_type) ==
    IF order.side THEN bbo.ask_price ELSE bbo.bid_price

\* The price of a limit fill.
LimitFillPrice(bbo, order, exec_type) ==
    IF exec_type = "Maker" THEN order.price
    ELSE IF order.side THEN bbo.ask_price ELSE bbo.bid_price

\* A slip: a limit order crosses only strictly through the touch.
LimitCrosses_Strict(bbo, order) ==
    \/ order.side /\ order.price > bbo.ask_price
    \/ ~order.side /\ order.price < bbo.bid_price

\* The test of try_fill_limit_order.
LimitCrosses(bbo, order) ==
    \/ order.side /\ order.price >= bbo.ask_price
    \/ ~order.side /\ order.price <= bbo.bid_price

\* impl MatchOrder for Bbo: try_fill_limit_order, None or Some(fill)
TryFillLimitOrder(matcher, order, exec_type) ==
    LET bbo == matcher[order.instrument_id]
    IN  IF LimitCrosses(bbo, order)
        THEN Some([order_id |-> order.order_id,
                   instrument_id |-> order.instrument_id,
                   side |-> order.side,
                   price |-> LimitFillPrice(bbo, order, exec_type),
                   filled_size |-> order.size,
                   acc_filled_size |-> order.size,
                   exec_type |-> exec_type,
                   state |-> "Filled"])
        ELSE None

\* A slip: slippage is charged to makers as well.
CalculateCost_MakerSlippage(model, fill) ==
    LET fee == IF fill.exec_type = "Taker" THEN model.taker_fee ELSE model.maker_fee
        price == IF fill.side THEN fill.price * (RateScale + model.slippage)
                 ELSE fill.price * (RateScale - model.slippage)
    IN  2 * (price * fill.filled_size * (RateScale + fee)
             - fill.price * fill.filled_size * RateScale * RateScale)

\* TransactionCostModel::calculate_cost, in units of 1/CashUnit.
CalculateCost(model, fill) ==
    LET fee == IF fill.exec_type = "Taker" THEN model.taker_fee ELSE model.maker_fee
        slippage == IF fill.exec_type = "Taker" THEN model.slippage ELSE 0
        price == IF fill.side THEN fill.price * (RateScale + slippage)
                 ELSE fill.price * (RateScale - slippage)
    IN  2 * (price * fill.filled_size * (RateScale + fee)
             - fill.price * fill.filled_size * RateScale * RateScale)

\* Position::update and Position::new_from_fill: the signed size of a fill.
SignedSize(fill) == IF fill.side THEN fill.filled_size ELSE 0 - fill.filled_size

\* A slip: the first fill of an instrument is booked as a buy whatever its side.
PortfolioUpdate_InsertUnsigned(positions, fill) ==
    LET inst == fill.instrument_id
    IN  IF inst \in DOMAIN positions
        THEN LET size == positions[inst] + SignedSize(fill)
             IN  IF size = 0
                 THEN MapRemove(positions, inst)
                 ELSE [positions EXCEPT ![inst] = size]
        ELSE MapInsert(positions, inst, fill.filled_size)

\* Portfolio::update.  A balance below 1e-12 is a balance of no lots.
PortfolioUpdate(positions, fill) ==
    LET inst == fill.instrument_id
    IN  IF inst \in DOMAIN positions
        THEN LET size == positions[inst] + SignedSize(fill)
             IN  IF size = 0
                 THEN MapRemove(positions, inst)
                 ELSE [positions EXCEPT ![inst] = size]
        ELSE MapInsert(positions, inst, SignedSize(fill))

\* Bbo::get_unbiased_price times bid_size + ask_size (2 for one-lot quotes).
MarketPrice2(bbo) == bbo.bid_price * bbo.ask_size + bbo.ask_price * bbo.bid_size

RECURSIVE SumValue(_, _, _)
SumValue(positions, matcher, left) ==
    IF left = {} THEN 0
    ELSE LET i == CHOOSE x \in left : TRUE
         IN  positions[i] * MarketPrice2(matcher[i]) * RateScale * RateScale
             + SumValue(positions, matcher, left \ {i})

\* Portfolio::get_value over get_inst_market_price, in units of 1/CashUnit.
PortfolioValue(positions, matcher) ==
    SumValue(positions, matcher, DOMAIN positions)

\* The part of the broker a fill changes.
Account(c, p, r) == [cash |-> c, portfolio |-> p, reporter |-> r]

\* SandboxBroker::get_total_value
TotalValue(acct, matcher) == PortfolioValue(acct.portfolio, matcher) + acct.cash

\* SandboxBroker::on_fill
OnFill(acct, fill, ts, matcher, model) ==
    LET cash1 == acct.cash - CalculateCost(model, fill)
        cash2 == IF fill.side
                 THEN cash1 - fill.price * fill.filled_size * CashUnit
                 ELSE cash1 + fill.price * fill.filled_size * CashUnit
        a1 == Account(cash2, PortfolioUpdate(acct.portfolio, fill), acct.reporter)
    IN  [a1 EXCEPT !.reporter = ReporterInsert(@, ts, TotalValue(a1, matcher))]

\* The for_each of try_fill_placed_orders over the fills found, in order.
RECURSIVE ApplyFills(_, _, _, _, _)
ApplyFills(acct, fills, ts, matcher, model) ==
    IF fills = <<>> THEN acct
    ELSE ApplyFills(OnFill(acct, Head(fills), ts, matcher, model),
                    Tail(fills), ts, matcher, model)

\* The ids try_fill_placed_orders finds fillable against the latest quotes.
FilledIds(orders, matcher) ==
    {id \in DOMAIN orders : TryFillLimitOrder(matcher, orders[id], "Maker") # None}

\* A slip: the Data event is queued ahead of the fills of its data step.
DataStepEvents_DataFirst(fills, data) == <<data>> \o fills

\* What one data step appends to broker_events_buf: on_data pushes the fills,
\* then poll_next pushes the Data event.
DataStepEvents(fills, data) == fills \o <<data>>

BInit ==
    /\ limit_orders = <<>>
    /\ broker_events_buf = <<>>
    /\ inst_matcher = [i \in Insts |-> Bbo(InitTs, i, InitQuote[1], InitQuote[2])]
    /\ dp_index = 0
    /\ dp_ended = FALSE
    /\ b_ts = InitTs
    /\ cash = InitCash * CashUnit
    /\ tcm \in CostModels
    /\ portfolio = <<>>
    /\ reporter = ReporterInsert(ReporterNew(ReportFrequency), InitTs,
                                 InitCash * CashUnit)
    /\ r_calls = <<>>
    /\ emitted = <<>>
    /\ n_inputs = 0
    /\ b_last = [type |-> "new"]

BParked ==
    /\ limit_orders = <<>>
    /\ broker_events_buf = <<>>
    /\ inst_matcher = <<>>
    /\ dp_index = 0
    /\ dp_ended = FALSE
    /\ b_ts = 0
    /\ cash = 0
    /\ tcm = [maker_fee |-> 0, taker_fee |-> 0, slippage |-> 0]
    /\ portfolio = <<>>
    /\ emitted = <<>>
    /\ n_inputs = 0
    /\ b_last = [type |-> "new"]

SetAccount(acct) ==
    /\ cash' = acct.cash
    /\ portfolio' = acct.portfolio
    /\ reporter' = acct.reporter

CurAccount == Account(cash, portfolio, reporter)

\* on_client_event, ClientEvent::PlaceOrder(Order::Market(order))
PlaceMarket(order) ==
    LET fill == FillMarketOrder(inst_matcher, order)
    IN  /\ SetAccount(OnFill(CurAccount, fill, b_ts, inst_matcher, tcm))
        /\ broker_events_buf' = Append(broker_events_buf, EvFill(fill, 0))
        /\ UNCHANGED limit_orders

\* on_client_event, ClientEvent::PlaceOrder(Order::Limit(order))
PlaceLimit(order) ==
    LET res == TryFillLimitOrder(inst_matcher, order, "Taker")
    IN  IF res # None
        THEN /\ SetAccount(OnFill(CurAccount, res[1], b_ts, inst_matcher, tcm))
             /\ broker_events_buf' = Append(broker_events_buf, EvFill(res[1], 0))
             /\ UNCHANGED limit_orders
        ELSE /\ limit_orders' = MapInsert(limit_orders, order.order_id, order)
             /\ broker_events_buf' =
                   Append(broker_events_buf, EvPlaced(OrderLimit(order)))
             /\ UNCHANGED <<cash, portfolio, reporter>>

\* A slip: the amend stores the order it was given in place of the old one.
Amend_Replace(order) ==
    IF order.kind = "Limit" /\ order.order.order_id \in DOMAIN limit_orders
    THEN LET id == order.order.order_id
         IN  /\ limit_orders' = [limit_orders EXCEPT ![id] = order.order]
             /\ broker_events_buf' =
                   Append(broker_events_buf, EvAmended(OrderLimit(order.order)))
             /\ UNCHANGED <<cash, portfolio, reporter>>
    ELSE UNCHANGED <<limit_orders, broker_events_buf, cash, portfolio, reporter>>

\* on_client_event, ClientEvent::AmendOrder(order)
Amend(order) ==
    IF order.kind = "Limit" /\ order.order.order_id \in DOMAIN limit_orders
    THEN LET id == order.order.order_id
             existing == [limit_orders[id] EXCEPT !.price = order.order.price,
                                                  !.size = order.order.size]
         IN  /\ limit_orders' = [limit_orders EXCEPT ![id] = existing]
             /\ broker_events_buf' =
                   Append(broker_events_buf, EvAmended(OrderLimit(existing)))
             /\ UNCHANGED <<cash, portfolio, reporter>>
    ELSE UNCHANGED <<limit_orders, broker_events_buf, cash, portfolio, reporter>>

\* A slip: a cancel of an id that is not working is dropped without an event.
Cancel_OnlyIfPresent(id) ==
    IF id \in DOMAIN limit_orders
    THEN /\ limit_orders' = MapRemove(limit_orders, id)
         /\ broker_events_buf' = Append(broker_events_buf, EvCanceled(id))
         /\ UNCHANGED <<cash, portfolio, reporter>>
    ELSE UNCHANGED <<limit_orders, broker_events_buf, cash, portfolio, reporter>>

\* A mutant of Cancel: the Canceled event is queued and the order is left in
\* the working set.
Cancel_EventOnly(id) ==
    /\ broker_events_buf' = Append(broker_events_buf, EvCanceled(id))
    /\ UNCHANGED <<limit_orders, cash, portfolio, reporter>>

\* on_client_event, ClientEvent::CancelOrder(order_id)
Cancel(id) ==
    /\ limit_orders' = MapRemove(limit_orders, id)
    /\ broker_events_buf' = Append(broker_events_buf, EvCanceled(id))
    /\ UNCHANGED <<cash, portfolio, reporter>>

\* Broker::on_client_event
ClientEventEffect(ev) ==
    /\ b_last' = ev
    /\ CASE ev.type = "PlaceOrder" /\ ev.order.kind = "Market" ->
               PlaceMarket(ev.order.order)
         [] ev.type = "PlaceOrder" /\ ev.order.kind = "Limit" ->
               PlaceLimit(ev.order.order)
         [] ev.type = "AmendOrder" -> Amend(ev.order)
         [] ev.type = "CancelOrder" -> Cancel(ev.order_id)
    /\ UNCHANGED <<inst_matcher, dp_index, dp_ended, b_ts, tcm, emitted, r_calls>>

\* Broker::on_client_event: one event of the batch start_send hands over.
OnClientEvent(ev) ==
    /\ n_inputs < MaxInputs
    /\ n_inputs' = n_inputs + 1
    /\ ClientEventEffect(ev)

SendPlaceOrder == \E ev \in ClientEvents : ev.type = "PlaceOrder" /\ OnClientEvent(ev)
SendAmendOrder == \E ev \in ClientEvents : ev.type = "AmendOrder" /\ OnClientEvent(ev)
SendCancelOrder == \E ev \in ClientEvents : ev.type = "CancelOrder" /\ OnClientEvent(ev)

\* A mutant of HasherSeed: every run keys its hasher afresh, as the
\* RandomState of std's HashMap does.
HasherSeed_PerRun(run) == run

\* FxHashMap is HashMap<K, V, FxBuildHasher>: the hasher of every map, in
\* every run, starts from the same state.
HasherSeed(run) == 0

\* The order in which a loop over limit_orders visits the ids, a function of
\* the hasher.  Where one run alone is followed the function is not known and
\* any order stands for it; where two runs are compared det.rank holds the
\* rank the ids have under an even seed, and an odd seed reverses it.
HashRank(seed, id) == IF seed % 2 = 0 THEN det.rank[id] ELSE 0 - det.rank[id]

VisitOrders(ids) ==
    IF det = <<>> THEN OrdersOf(ids)
    ELSE {q \in OrdersOf(ids) :
            \A i, j \in DOMAIN q :
               i < j => HashRank(HasherSeed(det.run), q[i])
                          < HashRank(HasherSeed(det.run), q[j])}

\* Stream::poll_next of the broker.  A data provider that is not ready makes
\* the call return Pending with nothing changed, which is no step.
PollNext ==
    IF broker_events_buf # <<>>
    THEN /\ emitted' = Append(emitted, Head(broker_events_buf))
         /\ broker_events_buf' = Tail(broker_events_buf)
         /\ b_last' = [type |-> "poll"]
         /\ UNCHANGED <<limit_orders, inst_matcher, dp_index, dp_ended, b_ts,
                        cash, tcm, portfolio, reporter, r_calls, n_inputs>>
    ELSE
      \/ /\ ~dp_ended
         /\ n_inputs < MaxInputs
         /\ \E q \in Quotes, dt \in TsSteps, i \in Insts :
              LET data == Bbo(b_ts + dt, i, q[1], q[2])
                  k == dp_index + 1
                  \* on_data
                  matcher == [inst_matcher EXCEPT ![i] = data]
                  ids == FilledIds(limit_orders, matcher)
              IN  \E visit \in VisitOrders(ids) :
                    LET fills == [n \in 1..Len(visit) |->
                                    TryFillLimitOrder(matcher, limit_orders[visit[n]],
                                                      "Maker")[1]]
                        acct == ApplyFills(CurAccount, fills, data.ts, matcher, tcm)
                        buf == broker_events_buf \o
                                 DataStepEvents([n \in 1..Len(fills) |->
                                                    EvFill(fills[n], k)],
                                                EvData(data, k))
                    IN  /\ b_ts' = data.ts
                        /\ inst_matcher' = matcher
                        /\ limit_orders' =
                              [id \in DOMAIN limit_orders \ ids |-> limit_orders[id]]
                        /\ SetAccount(acct)
                        /\ emitted' = Append(emitted, Head(buf))
                        /\ broker_events_buf' = Tail(buf)
                        /\ dp_index' = k
                        /\ n_inputs' = n_inputs + 1
                        /\ b_last' = [type |-> "data", data |-> data]
                        /\ UNCHANGED <<dp_ended, tcm, r_calls>>
      \/ /\ reporter' = ReporterEnd(ReporterInsert(reporter, b_ts,
                                       TotalValue(CurAccount, inst_matcher)))
         /\ dp_ended' = TRUE
         /\ b_last' = [type |-> "end"]
         /\ UNCHANGED <<limit_orders, broker_events_buf, inst_matcher, dp_index,
                        b_ts, cash, tcm, portfolio, emitted, r_calls, n_inputs>>

(***************************************************************************)
(*                             AutoReconnect                               *)
(***************************************************************************)

\* Bounds: the items given to start_send, the futures the factory makes
\* after new(), and the messages the inner streams yield in all.
MaxItems == 3
MaxConns == 3
MaxMsgs == 2

\* What an inner poll_ready, poll_flush or poll_close may return.
InnerPolls == {"Ok", "Err", "Pending"}

\* AutoReconnect::new: the first connection (number 0) has been awaited.
AInit ==
    /\ curr_conn = Some(0)
    /\ conn_future = None
    /\ sink_buf = <<>>
    /\ n_made = 0
    /\ conn_pos = 0
    /\ a_pc = "idle"
    /\ a_sent = <<>>
    /\ a_accepted = <<>>
    /\ a_recv = <<>>
    /\ a_ret = "none"

\* The AutoReconnect while another component is driven.
AParked == AInit

\* A mutant of CloseConnAndSetConnFuture: the connection that ended is
\* taken up again from its first item instead of a new one being made.
CloseConnAndSetConnFuture_Reuse ==
    /\ curr_conn' = None
    /\ conn_future' = Some([conn |-> n_made, completed |-> FALSE])
    /\ n_made' = n_made
    /\ conn_pos' = 0

\* close_conn_and_set_conn_future
CloseConnAndSetConnFuture ==
    /\ n_made < MaxConns
    /\ curr_conn' = None
    /\ conn_future' = Some([conn |-> n_made + 1, completed |-> FALSE])
    /\ n_made' = n_made + 1
    /\ conn_pos' = 0

\* A poll_* call returns r.
Return(r) == a_pc' = "idle" /\ a_ret' = r

\* The call of `name` goes round its loop again.
Continue(name) == a_pc' = name /\ a_ret' = "none"

\* A mutant of PollSetConn: a failed future is logged and the loop goes
\* round without a new future being made.
PollSetConn_NoNewFuture(name) ==
    IF conn_future = None \/ conn_future[1].completed
    THEN Return("panic") /\ UNCHANGED <<curr_conn, conn_future, n_made, conn_pos>>
    ELSE \/ /\ Return("Pending")
            /\ UNCHANGED <<curr_conn, conn_future, n_made, conn_pos>>
         \/ /\ curr_conn' = Some(conn_future[1].conn)
            /\ conn_future' = Some([conn_future[1] EXCEPT !.completed = TRUE])
            /\ Continue(name)
            /\ UNCHANGED <<n_made, conn_pos>>
         \/ /\ conn_future' = Some([conn_future[1] EXCEPT !.completed = TRUE])
            /\ Continue(name)
            /\ UNCHANGED <<curr_conn, n_made, conn_pos>>

\* poll_set_conn, one turn of its loop, inside the poll_* call `name`.
\* unwrap() of a missing future and a poll of a completed future panic.
PollSetConn(name) ==
    IF conn_future = None \/ conn_future[1].completed
    THEN Return("panic") /\ UNCHANGED <<curr_conn, conn_future, n_made, conn_pos>>
    ELSE \/ /\ Return("Pending")
            /\ UNCHANGED <<curr_conn, conn_future, n_made, conn_pos>>
         \/ /\ curr_conn' = Some(conn_future[1].conn)
            /\ conn_future' = Some([conn_future[1] EXCEPT !.completed = TRUE])
            /\ Continue(name)
            /\ UNCHANGED <<n_made, conn_pos>>
         \/ /\ CloseConnAndSetConnFuture
            /\ Continue(name)

Resumes(name) == a_pc \in {"idle", name}

\* Stream::poll_next, one turn of its loop.
APollNext ==
    /\ Resumes("poll_next")
    /\ IF curr_conn # None
       THEN \/ /\ Len(a_recv) < MaxMsgs
               /\ a_recv' = Append(a_recv, [conn |-> curr_conn[1], k |-> conn_pos + 1])
               /\ conn_pos' = conn_pos + 1
               /\ Return("Some")
               /\ UNCHANGED <<curr_conn, conn_future, n_made>>
            \/ /\ CloseConnAndSetConnFuture
               /\ Continue("poll_next")
               /\ UNCHANGED a_recv
            \/ /\ Return("Pending")
               /\ UNCHANGED <<curr_conn, conn_future, n_made, conn_pos, a_recv>>
       ELSE PollSetConn("poll_next") /\ UNCHANGED a_recv
    /\ UNCHANGED <<sink_buf, a_sent, a_accepted>>

\* Sink::poll_ready, one turn of its loop.
APollReady ==
    /\ Resumes("poll_ready")
    /\ IF curr_conn # None
       THEN /\ \E r \in InnerPolls : Return(r)
            /\ UNCHANGED <<curr_conn, conn_future, n_made, conn_pos>>
       ELSE PollSetConn("poll_ready")
    /\ UNCHANGED <<sink_buf, a_sent, a_accepted, a_recv>>

\* Sink::start_send: the items are numbered in the order they are given.
AStartSend ==
    /\ a_pc = "idle"
    /\ Len(a_sent) < MaxItems
    /\ sink_buf' = Append(sink_buf, Len(a_sent) + 1)
    /\ a_sent' = Append(a_sent, Len(a_sent) + 1)
    /\ a_ret' = "Ok"
    /\ UNCHANGED <<curr_conn, conn_future, n_made, conn_pos, a_pc, a_accepted, a_recv>>

\* Sink::poll_flush, one turn of its loops: one item offered to the inner
\* sink, or the inner poll_flush, or one turn of poll_set_conn.
APollFlush ==
    /\ Resumes("poll_flush")
    /\ IF curr_conn # None
       THEN IF sink_buf # <<>>
            THEN LET item == Head(sink_buf)
                 IN  \/ /\ a_accepted' = Append(a_accepted,
                                                [conn |-> curr_conn[1], item |-> item])
                        /\ sink_buf' = Tail(sink_buf)
                        /\ Continue("poll_flush")
                        /\ UNCHANGED <<curr_conn, conn_future, n_made, conn_pos>>
                     \/ /\ sink_buf' = Append(Tail(sink_buf), item)
                        /\ CloseConnAndSetConnFuture
                        /\ Continue("poll_flush")
                        /\ UNCHANGED a_accepted
            ELSE /\ \E r \in InnerPolls : Return(r)
                 /\ UNCHANGED <<curr_conn, conn_future, n_made, conn_pos, sink_buf,
                                a_accepted>>
       ELSE PollSetConn("poll_flush") /\ UNCHANGED <<sink_buf, a_accepted>>
    /\ UNCHANGED <<a_sent, a_recv>>

\* Sink::poll_close
APollClose ==
    /\ a_pc = "idle"
    /\ IF curr_conn # None
       THEN \E r \in InnerPolls : a_ret' = r
       ELSE a_ret' = "Ok"
    /\ UNCHANGED <<curr_conn, conn_future, sink_buf, n_made, conn_pos, a_pc, a_sent,
                   a_accepted, a_recv>>

(***************************************************************************)
(*            NaiveLimitExecutor and SignalExecuteStrategy                 *)
(*                                                                         *)
(* Sizes are whole lots of 10^-size_digits, so size_eps is one lot; prices *)
(* are whole ticks of 10^-price_digits; the notional is in lots x ticks.   *)
(* One unit of time is half a second.                                      *)
(***************************************************************************)

\* The number of on_event calls of a run.
MaxEvents == 4

\* The timestamp of the first market data.
FirstTs == 4

\* Strategy::get_cooling_duration: Duration::seconds(1), two units of time.
CoolingDuration == 2
\* get_next_order_id: order_id_body << 16
TagBits == 16
\* size_eps = 10^-size_digits: one lot
SizeEps == 1
\* notional_threshold = 0.05 * notional = notional / ThresholdDiv
ThresholdDiv == 20

Notional == 140
ExInst == "EthUsdtSwap"
Tags == {123, 65536}
EventIntervals == {0, 3}
HoldingDuration == 2
PriceOffset == 0
ExQuotes == {<<2, 3>>, <<3, 4>>}
ExTsSteps == {0, 1, 3}
Signals == {None, Some("Long"), Some("Short")}
\* filled_size of a partial fill
PartSizes == {2}

RECURSIVE Pow2(_)
Pow2(n) == IF n = 0 THEN 1 ELSE 2 * Pow2(n - 1)

\* a | b on unsigned integers
RECURSIVE BitOr(_, _)
BitOr(a, b) ==
    IF a = 0 THEN b
    ELSE IF b = 0 THEN a
    ELSE (IF a % 2 = 1 \/ b % 2 = 1 THEN 1 ELSE 0) + 2 * BitOr(a \div 2, b \div 2)

Abs(x) == IF x < 0 THEN 0 - x ELSE x

\* approx_eq!(f64, a, b, epsilon = eps)
ApproxEq(a, b, eps) == Abs(a - b) <= eps

\* truncate_f64(notional / price, size_digits): the whole lots, toward zero
TruncateLots(notional, price) == notional \div price

\* round_f64(price, price_digits) of a whole number of ticks
RoundTicks(price) == price

\* get_side_size_from_raw_size
GetSideSizeFromRawSize(raw_size) ==
    IF raw_size > 0 THEN <<TRUE, raw_size>> ELSE <<FALSE, 0 - raw_size>>

\* Bbo::default()
DefaultBbo ==
    [ts |-> 0, instrument_id |-> ExInst, bid_price |-> 0, bid_size |-> 0,
     ask_price |-> 0, ask_size |-> 0]

\* NaiveLimitExecutor::new
ExecutorNew(event_interval, order_id_offset) ==
    [instrument_id |-> ExInst,
     notional |-> Notional,
     size_eps |-> SizeEps,
     price_offset |-> PriceOffset,
     bbo |-> DefaultBbo,
     last_signal |-> None,
     last_signal_ts |-> 0,
     holding_duration |-> HoldingDuration,
     last_event_ts |-> 0,
     event_interval |-> event_interval,
     position |-> 0,
     placed_order |-> None,
     next_order_id_body |-> 0,
     order_id_offset |-> order_id_offset]

\* Position::is_clear
IsClear(size, eps) == ApproxEq(0, size, eps)

\* The bits of a Timestamp.  The source's u64 has 64; the model's times are
\* small and its word is as wide as the checker's integers allow, far above
\* every duration of the model.
TsBits == 24

\* a - b on Timestamp (u64) as a release build computes it: modulo 2^TsBits.
\* A debug build panics where a < b.
TsSub(a, b) == IF a >= b THEN a - b ELSE a - b + Pow2(TsBits)

\* An executor that holds its position whatever its age.
GetIdealPosition_NeverExpires(ex, signal) ==
    IF signal = None THEN ex.position
    ELSE IF signal[1] = "Long"
         THEN TruncateLots(ex.notional, ex.bbo.bid_price)
         ELSE 0 - TruncateLots(ex.notional, ex.bbo.ask_price)

\* NaiveLimitExecutor::get_ideal_position
GetIdealPosition(ex, signal) ==
    IF signal = None
    THEN IF IsClear(ex.position, ex.size_eps) THEN ex.position
         ELSE IF TsSub(ex.bbo.ts, ex.last_signal_ts) >= ex.holding_duration THEN 0
         ELSE ex.position
    ELSE IF signal[1] = "Long"
         THEN TruncateLots(ex.notional, ex.bbo.bid_price)
         ELSE 0 - TruncateLots(ex.notional, ex.bbo.ask_price)

\* NaiveLimitExecutor::get_next_order_id: <<the id, the executor after>>.
\* The counter stays far below 2^48, so the shift loses no bits.
GetNextOrderId(ex) ==
    <<BitOr(ex.next_order_id_body * Pow2(TagBits), ex.order_id_offset),
      [ex EXCEPT !.next_order_id_body = @ + 1]>>

\* LimitOrder::from_raw_size
FromRawSize(raw_size, order_id, instrument_id, price) ==
    LimitOrder(order_id, instrument_id, price,
               IF raw_size > 0 THEN raw_size ELSE 0 - raw_size, raw_size > 0)

\* NaiveLimitExecutor::gen_order: <<Option<LimitOrder>, the executor after>>
GenOrderWithId(next, raw_size, instrument_id, price) ==
    <<Some(FromRawSize(raw_size, next[1], instrument_id, price)), next[2]>>

GenOrder(ex, raw_size, price) ==
    IF ApproxEq(raw_size, 0, ex.size_eps) THEN <<None, ex>>
    ELSE IF ThresholdDiv * Abs(raw_size) * price < ex.notional THEN <<None, ex>>
    ELSE GenOrderWithId(GetNextOrderId(ex), raw_size, ex.instrument_id, price)

\* LimitOrder::unfilled_size
UnfilledSize(order) == order.size - order.filled_size

\* An amend that takes new_size for the total size of the order.
Amended_TotalSize(order, new_size, new_price) ==
    [order EXCEPT !.size = new_size, !.price = new_price]

\* LimitOrder::amended (executors.rs calls it by its earlier name, modified):
\* the order with the new working size and price
Amended(order, new_size, new_price) ==
    [order EXCEPT !.size = order.filled_size + new_size, !.price = new_price]

\* The test of the same-side branch of get_event_from_target_order.
NeedsAmend(ex, old_order, new_size, price) ==
    \/ ~ApproxEq(UnfilledSize(old_order), new_size, ex.size_eps)
    \/ old_order.price # price

\* The ending shared by the two branches of get_event_from_target_order that
\* call gen_order: the generated order g[1], if any, becomes the working order
\* and its PlaceOrder is pushed after the events made so far.
PlaceGenerated(g, events) ==
    <<[g[2] EXCEPT !.placed_order = g[1]],
      events \o (IF g[1] = None THEN <<>> ELSE <<PlaceOrder(OrderLimit(g[1][1]))>>)>>

\* The same-side branch of get_event_from_target_order.
AmendWorking(ex, old_order, new_size, price) ==
    IF NeedsAmend(ex, old_order, new_size, price)
    THEN <<[ex EXCEPT !.placed_order = Some(Amended(old_order, new_size, price))],
           <<AmendOrder(OrderLimit(Amended(old_order, new_size, price)))>> >>
    ELSE <<ex, <<>> >>

\* get_event_from_target_order placing the new order before it cancels the
\* working one.
ReplaceWorking_PlaceFirst(ex, old_order, ss, raw_size, price) ==
    IF ss[1] = old_order.side
    THEN AmendWorking(ex, old_order, ss[2], price)
    ELSE <<PlaceGenerated(GenOrder(ex, raw_size, price), <<>>)[1],
           PlaceGenerated(GenOrder(ex, raw_size, price), <<>>)[2]
             \o <<CancelOrder(old_order.order_id)>> >>

\* The branches of get_event_from_target_order for a working order old_order
\* and a target of side and size ss.
ReplaceWorking(ex, old_order, ss, raw_size, price) ==
    IF ss[1] = old_order.side
    THEN AmendWorking(ex, old_order, ss[2], price)
    ELSE PlaceGenerated(GenOrder(ex, raw_size, price),
                        <<CancelOrder(old_order.order_id)>>)

\* NaiveLimitExecutor::get_event_from_target_order:
\* <<the executor after, the client events>>
GetEventFromTargetOrder(ex, raw_size, price) ==
    IF ex.placed_order = None
    THEN PlaceGenerated(GenOrder(ex, raw_size, price), <<>>)
    ELSE
      IF ApproxEq(0, raw_size, ex.size_eps)
      THEN <<[ex EXCEPT !.placed_order = None],
             <<CancelOrder(ex.placed_order[1].order_id)>> >>
      ELSE ReplaceWorking(ex, ex.placed_order[1],
                          GetSideSizeFromRawSize(raw_size), raw_size, price)

\* NaiveLimitExecutor::calc_target_order_arg: <<target_order_size, price>>
CalcTargetOrderArg(ex, target_position) ==
    LET target_order_size == target_position - ex.position
        price == IF target_order_size > 0
                 THEN ex.bbo.bid_price + ex.price_offset
                 ELSE ex.bbo.ask_price - ex.price_offset
    IN  <<target_order_size, RoundTicks(price)>>

\* A fill that keeps a fully filled order as the working order.
OrderFill_KeepsFilled(order, fill) ==
    IF fill.state = "Live" THEN Some(order)
    ELSE Some([order EXCEPT !.filled_size = fill.acc_filled_size])

\* LimitOrder::fill: Option<LimitOrder>
OrderFill(order, fill) ==
    CASE fill.state = "Live" -> Some(order)
      [] fill.state = "Partially" ->
            Some([order EXCEPT !.filled_size = fill.acc_filled_size])
      [] fill.state = "Filled" -> None

\* A mutant of ExUpdate: a Fill changes the working order and not the position.
ExUpdate_OrderOnly(ex, broker_event) ==
    CASE broker_event.type = "Data" -> [ex EXCEPT !.bbo = broker_event.data]
      [] broker_event.type = "Fill" ->
            [ex EXCEPT !.placed_order =
                          IF @ = None THEN None
                          ELSE OrderFill(@[1], broker_event.fill)]
      [] OTHER -> ex

\* Executor::update of NaiveLimitExecutor.  Its match has arms for Data and
\* Fill only; an event of another kind reaches no arm.
ExUpdate(ex, broker_event) ==
    CASE broker_event.type = "Data" -> [ex EXCEPT !.bbo = broker_event.data]
      [] broker_event.type = "Fill" ->
            [ex EXCEPT !.placed_order =
                          IF @ = None THEN None
                          ELSE OrderFill(@[1], broker_event.fill),
                       !.position = @ + SignedSize(broker_event.fill)]
      [] OTHER -> ex

\* on_signal without its early return.
ExIsCooling_Never(ex) == FALSE

\* The early return of on_signal.
ExIsCooling(ex) == TsSub(ex.bbo.ts, ex.last_event_ts) < ex.event_interval

\* Executor::on_signal of NaiveLimitExecutor:
\* <<the executor after, the client events>>
ToTargetOrder(ex, arg) == GetEventFromTargetOrder(ex, arg[1], arg[2])

\* The tail of on_signal: got is what get_event_from_target_order made.
RecordSignal(got, signal) ==
    <<[got[1] EXCEPT !.last_signal = signal,
                     !.last_signal_ts = IF signal # None THEN got[1].bbo.ts ELSE @,
                     !.last_event_ts = IF got[2] # <<>> THEN got[1].bbo.ts ELSE @],
      got[2]>>

ExOnSignal(ex, signal) ==
    IF ExIsCooling(ex) THEN <<ex, <<>> >>
    ELSE RecordSignal(
           ToTargetOrder(ex, CalcTargetOrderArg(ex, GetIdealPosition(ex, signal))),
           signal)

\* SignalExecuteStrategy::on_event_inner; the signaler's answer is signal.
OnEventInner(ex, broker_event, signal) ==
    IF broker_event.type = "Data" THEN ExOnSignal(ExUpdate(ex, broker_event), signal)
    ELSE <<ExUpdate(ex, broker_event), <<>> >>

\* Strategy::is_cooling
IsCooling(last_ts, now) == TsSub(now, last_ts) < CoolingDuration

\* Strategy::on_event:
\* <<the executor after, last_event_ts after, the batch the executor made,
\*   the batch returned>>
DropWhileCooling(got, last_ts, now) ==
    IF IsCooling(last_ts, now) THEN <<got[1], last_ts, got[2], <<>> >>
    ELSE <<got[1], IF got[2] # <<>> THEN now ELSE last_ts, got[2], got[2]>>

StrategyOnEvent(ex, last_ts, broker_event, signal, now) ==
    DropWhileCooling(OnEventInner(ex, broker_event, signal), last_ts, now)

\* The Fill events a venue can send while the executor is in state ex.
FillsFor(ex) ==
    IF ex.placed_order = None
    THEN {[order_id |-> 0, instrument_id |-> ex.instrument_id, side |-> sd,
           price |-> ex.bbo.bid_price, filled_size |-> sz, acc_filled_size |-> sz,
           exec_type |-> "Maker", state |-> "Filled"] :
             sd \in BOOLEAN, sz \in PartSizes}
    ELSE LET o == ex.placed_order[1]
             fill(sz, state) ==
                 [order_id |-> o.order_id, instrument_id |-> o.instrument_id,
                  side |-> o.side, price |-> o.price, filled_size |-> sz,
                  acc_filled_size |-> o.filled_size + sz,
                  exec_type |-> "Maker", state |-> state]
         IN  {fill(sz, "Partially") : sz \in {x \in PartSizes : x < UnfilledSize(o)}}
             \cup {fill(UnfilledSize(o), "Filled"), fill(0, "Live")}

\* The ids of the orders a batch places.
PlacedIds(batch) ==
    LET places == SelectSeq(batch, LAMBDA ev : ev.type = "PlaceOrder")
    IN  [n \in 1..Len(places) |-> places[n].order.order.order_id]

SInit ==
    /\ \E event_interval \in EventIntervals, order_id_offset \in Tags :
          executor = ExecutorNew(event_interval, order_id_offset)
    /\ s_last_event_ts = 0
    /\ s_n = 0
    /\ s_call = [type |-> "new"]
    /\ s_ids = <<>>
    /\ s_emit_ts = None
    /\ e_pc = "poll"
    /\ e_event = None
    /\ e_batch = <<>>

\* The strategy while another component is driven.
SParked ==
    /\ executor = ExecutorNew(0, 0)
    /\ s_last_event_ts = 0
    /\ s_n = 0
    /\ s_call = [type |-> "new"]
    /\ s_ids = <<>>
    /\ s_emit_ts = None
    /\ e_pc = "poll"
    /\ e_event = None
    /\ e_batch = <<>>

\* One call of Strategy::on_event with broker_event at time now.
OnEventDone(got, broker_event, signal, now) ==
    /\ executor' = got[1]
    /\ s_last_event_ts' = got[2]
    /\ s_n' = s_n + 1
    /\ s_call' = [type |-> "on_event", event |-> broker_event, signal |-> signal,
                  now |-> now, before |-> executor, emit_before |-> s_emit_ts,
                  inner |-> got[3], outer |-> got[4]]
    /\ s_ids' = s_ids \o PlacedIds(got[3])
    /\ s_emit_ts' = IF got[4] # <<>> THEN Some(now) ELSE s_emit_ts

OnEvent(broker_event, signal, now) ==
    /\ s_n < MaxEvents
    /\ OnEventDone(StrategyOnEvent(executor, s_last_event_ts, broker_event, signal, now),
                   broker_event, signal, now)

\* The timestamp of the next Data event: time does not run backwards, and the
\* first timestamp is a time of day far from the zero of Bbo::default().
DataTs(ex, dt) == (IF ex.bbo.ts < FirstTs THEN FirstTs ELSE ex.bbo.ts) + dt

\* on_event with a Data event.
SOnData ==
    \E q \in ExQuotes, dt \in ExTsSteps, signal \in Signals :
       OnEvent(EvData(Bbo(DataTs(executor, dt), ExInst, q[1], q[2]), 0), signal,
               DataTs(executor, dt))

\* on_event with a Fill event.
SOnFill ==
    \E fill \in FillsFor(executor) :
       OnEvent(EvFill(fill, 0), None, executor.bbo.ts)

\* The partial fills of the working order that were on their way when the
\* last call amended it: their acc_filled_size counts against the order as
\* it was before the amend (data.rs: the Fill carries the push's
\* acc_filled_size).
FillsInFlight ==
    IF /\ s_call.type = "on_event"
       /\ s_call.inner # <<>>
       /\ s_call.inner[1].type = "AmendOrder"
    THEN {[order_id |-> s_call.before.placed_order[1].order_id,
           instrument_id |-> s_call.before.placed_order[1].instrument_id,
           side |-> s_call.before.placed_order[1].side,
           price |-> s_call.before.placed_order[1].price,
           filled_size |-> sz,
           acc_filled_size |-> s_call.before.placed_order[1].filled_size + sz,
           exec_type |-> "Maker", state |-> "Partially"] :
             sz \in {x \in PartSizes
                           \cup {UnfilledSize(s_call.before.placed_order[1]) - 1} :
                         /\ x > 0
                         /\ x < UnfilledSize(s_call.before.placed_order[1])}}
    ELSE {}

\* on_event with a Fill event that crossed the executor's amend.
SOnFillInFlight ==
    \E fill \in FillsInFlight :
       OnEvent(EvFill(fill, 0), None, executor.bbo.ts)

\* on_event with a Placed, Amended or Canceled event.
SOnOrderEvent ==
    \E ev \in {EvCanceled(0)}
              \cup (IF executor.placed_order = None THEN {}
                    ELSE {EvPlaced(OrderLimit(executor.placed_order[1])),
                          EvAmended(OrderLimit(executor.placed_order[1]))}) :
       OnEvent(ev, None, executor.bbo.ts)

(***************************************************************************)
(*     Engine::run: the sandbox broker driven by the strategy              *)
(***************************************************************************)

\* A loop that pulls the next broker event after the first client event.
FeedOrPoll_DropRest(batch) == "poll"

\* Where the loop goes with batch left to feed.
FeedOrPoll(batch) == IF batch = <<>> THEN "poll" ELSE "feed"

\* let Some(broker_event) = self.broker.next_broker_event().await else break
EPoll ==
    /\ e_pc = "poll"
    /\ PollNext
    /\ IF b_last'.type = "end"
       THEN e_pc' = "done" /\ e_event' = None
       ELSE e_pc' = "strategy" /\ e_event' = Some(emitted'[Len(emitted')])
    /\ UNCHANGED <<svars, e_batch>>

\* What on_event does with the event taken, at the broker's time.
EOnEventDone(got, signal) ==
    /\ OnEventDone(got, e_event[1], signal, b_ts)
    /\ e_batch' = got[4]
    /\ e_pc' = FeedOrPoll(got[4])
    /\ UNCHANGED <<rvars, bvars, e_event>>

\* let client_events = self.strategy.on_event(&broker_event, now), where now
\* is Broker::now(); the signaler answers a Data event with any signal.
EStrategy ==
    /\ e_pc = "strategy"
    /\ \E signal \in (IF e_event[1].type = "Data" THEN Signals ELSE {None}) :
          EOnEventDone(StrategyOnEvent(executor, s_last_event_ts, e_event[1],
                                       signal, b_ts),
                       signal)

\* self.broker.on_client_events(client_events): the next event of the batch.
EFeed ==
    /\ e_pc = "feed"
    /\ ClientEventEffect(Head(e_batch))
    /\ e_batch' = Tail(e_batch)
    /\ e_pc' = FeedOrPoll(Tail(e_batch))
    /\ UNCHANGED <<svars, e_event, n_inputs>>

(***************************************************************************)
(*                     Properties of the Reporter                          *)
(***************************************************************************)

IsInsertScenarioD ==
    /\ reporter.frequency = 100
    /\ r_calls = <<InsertCall(150, 10), InsertCall(450, 30), EndCall>>

\* C4: after any sequence of insert and end calls the timestamps of
\* value_history are strictly increasing and consecutive records are exactly
\* one frequency apart.
C4_HistoryEvenlySpaced ==
    \A i \in 1..(Len(reporter.value_history) - 1) :
       /\ reporter.value_history[i].ts < reporter.value_history[i + 1].ts
       /\ reporter.value_history[i + 1].ts - reporter.value_history[i].ts
             = reporter.frequency

\* The records insert(ts, .) must append on an initialized reporter: one per
\* bin boundary B+f, B+2f, ... below ts, each with the value buffered before.
SkippedBins(r, ts) ==
    LET n == Cardinality({k \in 1..(MaxTsK + 1) :
                             r.last_ts_bin + k * r.frequency < ts})
    IN  [k \in 1..n |-> Record(r.last_ts_bin + k * r.frequency, r.value_buf)]

C5_CallEffect ==
    Len(r_calls') = Len(r_calls) + 1 =>
       LET c == r_calls'[Len(r_calls')]
       IN  /\ (c.op = "insert" /\ reporter.is_initialized) =>
                /\ reporter'.value_buf = c.value
                /\ reporter'.last_ts_bin + reporter.frequency >= c.ts
                /\ IF c.ts > reporter.last_ts_bin + reporter.frequency
                   THEN /\ reporter'.value_history =
                              reporter.value_history \o SkippedBins(reporter, c.ts)
                        /\ Len(SkippedBins(reporter, c.ts)) >= 1
                   ELSE /\ reporter'.value_history = reporter.value_history
                        /\ reporter'.last_ts_bin = reporter.last_ts_bin
           /\ (c.op = "end" /\ ~reporter.is_end) =>
                reporter'.value_history =
                   Append(reporter.value_history,
                          Record(reporter.last_ts_bin + reporter.frequency,
                                 reporter.value_buf))

C5_ScenarioD ==
    IsInsertScenarioD =>
       reporter.value_history =
          <<Record(200, 10), Record(300, 10), Record(400, 10), Record(500, 30)>>

\* C5: on an initialized reporter insert(ts, v) with ts > B + f appends one
\* record per skipped bin boundary below ts carrying the previously buffered
\* value and then buffers v; with ts <= B + f it only overwrites the buffer;
\* end() appends the buffer at the next boundary.  With f = 100,
\* insert(150,10); insert(450,30); end() gives (200,10),(300,10),(400,10),
\* (500,30).
C5_InsertHoldsLastValue == [][C5_CallEffect]_vars /\ [](C5_ScenarioD)

\* The scenario has run: three bins were skipped by one insert, then end().
C5_Witness == IsInsertScenarioD /\ Len(reporter.value_history) = 4

(***************************************************************************)
(*                   Properties of the TsStreamMerger                      *)
(***************************************************************************)

OfStream(s, q) == SelectSeq(q, LAMBDA x : x.src = s)

\* C6: for inputs that are each non-decreasing in get_ts(), the output is
\* non-decreasing in get_ts(), and of two pending heads with equal timestamps
\* the item of stream 1 is emitted first.
C6_MergeOrder ==
    /\ IsSortedTs(m_out)
    /\ \A i \in 1..Len(m_out) : \A j \in (i + 1)..Len(m_out) :
          ~(m_out[i].src = 2 /\ m_out[j].src = 1 /\ m_out[i].ts = m_out[j].ts)
    /\ (/\ m_ret.kind = "item"
        /\ m_out[Len(m_out)].src = 2
        /\ buffer1 # None) => buffer1[1].ts > m_out[Len(m_out)].ts

\* Both streams held an item with the same timestamp and both were emitted.
C6_Witness ==
    \E i \in 1..Len(m_out) : \E j \in 1..Len(m_out) :
       /\ m_out[i].src = 1
       /\ m_out[j].src = 2
       /\ m_out[i].ts = m_out[j].ts
       /\ i < j

\* C7: every item of both inputs is emitted exactly once in its stream's own
\* order; end-of-stream is returned only when both inputs have ended and both
\* slots are empty; the merger never waits on an input that has ended.
C7_MergeComplete ==
    /\ OfStream(1, m_out) \o buffer1 \o stream1 = m_src[1]
    /\ OfStream(2, m_out) \o buffer2 \o stream2 = m_src[2]
    /\ stream1_ended => stream1 = <<>>
    /\ stream2_ended => stream2 = <<>>
    /\ m_ret.kind = "end" =>
          /\ stream1_ended /\ stream2_ended
          /\ buffer1 = None /\ buffer2 = None
          /\ Len(m_out) = Len(m_src[1]) + Len(m_src[2])
    /\ m_ret.kind = "pending" =>
          /\ m_ret.waited \in {1, 2}
          /\ m_ret.waited = 1 => ~stream1_ended
          /\ m_ret.waited = 2 => ~stream2_ended

\* Stream 1 ended first, stream 2 was drained after it, then the end came.
C7_Witness ==
    /\ m_ret.kind = "end"
    /\ Len(m_src[1]) >= 1
    /\ Len(m_src[2]) >= 2
    /\ m_out[Len(m_out)].src = 2
    /\ m_out[Len(m_out) - 1].src = 2


(***************************************************************************)
(*                  Properties of the SandboxBroker                        *)
(***************************************************************************)

\* Every event the broker has made, in the order poll_next returns them:
\* those returned, then those still queued.
AllEvents == emitted \o broker_events_buf

Last(q) == q[Len(q)]

IsClientStep == n_inputs' = n_inputs + 1 /\ b_last'.type \in {"PlaceOrder", "AmendOrder", "CancelOrder"}
IsDataStep == n_inputs' = n_inputs + 1 /\ b_last'.type = "data"

\* C1: a Fill made by matching the working orders against market-data item k
\* comes out of the stream before the Data event of item k and after the
\* Data event of every earlier item.
C1_FillsBeforeTheirData ==
    \A i \in 1..Len(AllEvents) :
       AllEvents[i].type = "Fill" =>
          /\ AllEvents[i].at > 0 <=> AllEvents[i].fill.exec_type = "Maker"
          /\ AllEvents[i].at > 0 =>
                /\ \E j \in (i + 1)..Len(AllEvents) :
                      /\ AllEvents[j].type = "Data"
                      /\ AllEvents[j].at = AllEvents[i].at
                /\ \A j \in 1..Len(AllEvents) :
                      AllEvents[j].type = "Data" =>
                         /\ AllEvents[j].at < AllEvents[i].at => j < i
                         /\ AllEvents[j].at >= AllEvents[i].at => j > i

\* The stream has returned the Data of one item, then a Fill made by the
\* next item, then that item's Data.
C1_Witness ==
    \E i, j, l \in 1..Len(emitted) :
       /\ i < j /\ j < l
       /\ emitted[i].type = "Data"
       /\ emitted[j].type = "Fill"
       /\ emitted[l].type = "Data"
       /\ emitted[j].at = emitted[l].at
       /\ emitted[i].at < emitted[j].at

RECURSIVE SignedFillSum(_, _)
SignedFillSum(events, inst) ==
    IF events = <<>> THEN 0
    ELSE LET e == Head(events)
             this == IF e.type = "Fill" /\ e.fill.instrument_id = inst
                     THEN IF e.fill.side THEN e.fill.filled_size
                          ELSE 0 - e.fill.filled_size
                     ELSE 0
         IN  this + SignedFillSum(Tail(events), inst)

PositionSize(inst) == IF inst \in DOMAIN portfolio THEN portfolio[inst] ELSE 0

\* C2: the portfolio's size for an instrument is the signed sum of
\* filled_size over every Fill the broker has produced for it, an absent
\* entry counting as 0.
C2_PortfolioIsSumOfFills ==
    \A inst \in Insts : PositionSize(inst) = SignedFillSum(AllEvents, inst)

\* Three fills with both sides among them have left a position.
C2_Witness ==
    /\ \E i, j, l \in 1..Len(AllEvents) :
          /\ i < j /\ j < l
          /\ AllEvents[i].type = "Fill" /\ AllEvents[j].type = "Fill"
          /\ AllEvents[l].type = "Fill"
          /\ AllEvents[i].fill.side # AllEvents[j].fill.side
    /\ \E inst \in Insts : PositionSize(inst) # 0

C8_Step ==
    (IsClientStep /\ b_last'.type = "PlaceOrder" /\ b_last'.order.kind = "Limit") =>
       LET o == b_last'.order.order
           bbo == inst_matcher[o.instrument_id]
           taker == \/ o.side /\ o.price >= bbo.ask_price
                    \/ ~o.side /\ o.price <= bbo.bid_price
           new == Last(broker_events_buf')
       IN  /\ Len(broker_events_buf') = Len(broker_events_buf) + 1
           /\ taker =>
                 /\ new.type = "Fill"
                 /\ new.fill.exec_type = "Taker"
                 /\ new.fill.order_id = o.order_id
                 /\ limit_orders' = limit_orders
           /\ ~taker =>
                 /\ new = EvPlaced(OrderLimit(o))
                 /\ DOMAIN limit_orders' = DOMAIN limit_orders \cup {o.order_id}
                 /\ limit_orders'[o.order_id] = o
                 /\ \A x \in DOMAIN limit_orders \ {o.order_id} :
                       limit_orders'[x] = limit_orders[x]
           /\ (bbo.bid_price < bbo.ask_price /\ o.side /\ o.price = bbo.bid_price) =>
                 new.type = "Placed" /\ o.order_id \in DOMAIN limit_orders'
           /\ (o.side /\ o.price = bbo.ask_price) =>
                 new.type = "Fill" /\ new.fill.exec_type = "Taker"

\* C8: a limit order placed in the sandbox is filled at once as Taker, and
\* does not enter the working set, exactly when it is a buy at or above the
\* ask or a sell at or below the bid; otherwise it enters the working set
\* and Placed is queued.  A buy at the bid rests, a buy at the ask fills.
C8_LimitPlacement == [][C8_Step]_vars

\* A buy at the ask has just been filled as taker while a buy at the bid
\* rests in the working set.
C8_Witness ==
    /\ b_last.type = "PlaceOrder"
    /\ b_last.order.kind = "Limit"
    /\ b_last.order.order.side
    /\ b_last.order.order.price = inst_matcher[b_last.order.order.instrument_id].ask_price
    /\ broker_events_buf # <<>>
    /\ Last(broker_events_buf).type = "Fill"
    /\ Last(broker_events_buf).fill.exec_type = "Taker"
    /\ \E id \in DOMAIN limit_orders :
          /\ limit_orders[id].side
          /\ limit_orders[id].price =
                inst_matcher[limit_orders[id].instrument_id].bid_price

\* The events a step has added to the stream.
NewEvents == SubSeq(AllEvents', Len(AllEvents) + 1, Len(AllEvents'))

C9_Step ==
    /\ (IsClientStep /\ b_last'.type = "PlaceOrder") =>
          LET o == b_last'.order.order
              bbo == inst_matcher[o.instrument_id]
              new == Last(broker_events_buf')
          IN  (b_last'.order.kind = "Market" \/ new.type = "Fill") =>
                 /\ new.type = "Fill"
                 /\ new.fill.exec_type = "Taker"
                 /\ new.fill.state = "Filled"
                 /\ new.fill.filled_size = o.size
                 /\ new.fill.price = IF o.side THEN bbo.ask_price ELSE bbo.bid_price
    /\ IsDataStep =>
          LET crossing ==
                 {id \in DOMAIN limit_orders :
                    LET o == limit_orders[id]
                        q == inst_matcher'[o.instrument_id]
                    IN  \/ o.side /\ q.ask_price <= o.price
                        \/ ~o.side /\ q.bid_price >= o.price}
              fills == SelectSeq(NewEvents, LAMBDA e : e.type = "Fill")
          IN  /\ {fills[n].fill.order_id : n \in 1..Len(fills)} = crossing
              /\ Len(fills) = Cardinality(crossing)
              /\ \A n \in 1..Len(fills) :
                    LET f == fills[n].fill
                        o == limit_orders[f.order_id]
                    IN  /\ f.exec_type = "Maker"
                        /\ f.price = o.price
                        /\ f.filled_size = o.size
                        /\ f.acc_filled_size = o.size
                        /\ f.side = o.side
                        /\ f.state = "Filled"
              /\ DOMAIN limit_orders' = DOMAIN limit_orders \ crossing
              /\ \A x \in DOMAIN limit_orders' : limit_orders'[x] = limit_orders[x]

\* C9: a market order and a limit order filled on placement fill as Taker at
\* the touched side (ask for a buy, bid for a sell); a resting limit order
\* fills in a data step exactly when the new ask <= its price (buy) or the
\* new bid >= its price (sell), as Maker, at its own price, for its full
\* size, with state Filled, and leaves the working set.
C9_FillPrices == [][C9_Step]_vars

\* A data step has just filled a resting order as maker at its own price,
\* which is not the touch of the new quote.
C9_Witness ==
    /\ b_last.type = "data"
    /\ \E i \in 1..Len(AllEvents) :
          /\ AllEvents[i].type = "Fill"
          /\ AllEvents[i].at = dp_index
          /\ AllEvents[i].fill.exec_type = "Maker"
          /\ AllEvents[i].fill.price # b_last.data.bid_price
          /\ AllEvents[i].fill.price # b_last.data.ask_price

C10_Step ==
    (IsClientStep /\ b_last'.type = "CancelOrder") =>
       LET id == b_last'.order_id
       IN  /\ DOMAIN limit_orders' = DOMAIN limit_orders \ {id}
           /\ \A x \in DOMAIN limit_orders' : limit_orders'[x] = limit_orders[x]
           /\ cash' = cash
           /\ portfolio' = portfolio
           /\ broker_events_buf' = Append(broker_events_buf, EvCanceled(id))
           /\ b_last = b_last' =>
                 /\ limit_orders' = limit_orders
                 /\ cash' = cash
                 /\ portfolio' = portfolio

\* C10: CancelOrder removes the id from the working set if it is there,
\* leaves the other orders, cash and portfolio alone and always queues
\* exactly one Canceled event; a second cancel of the same id changes
\* neither the working set nor cash nor the portfolio.
C10_CancelIdempotent == [][C10_Step]_vars

\* A working order was cancelled and then cancelled again: both cancels
\* queued Canceled, and the order is gone.
C10_Witness ==
    /\ b_last.type = "CancelOrder"
    /\ Len(broker_events_buf) >= 2
    /\ Last(broker_events_buf) = EvCanceled(b_last.order_id)
    /\ broker_events_buf[Len(broker_events_buf) - 1] = EvCanceled(b_last.order_id)
    /\ \E i \in 1..Len(AllEvents) :
          /\ AllEvents[i].type = "Placed"
          /\ AllEvents[i].order.order.order_id = b_last.order_id
    /\ b_last.order_id \notin DOMAIN limit_orders

C11_Step ==
    (/\ IsClientStep
     /\ b_last'.type = "AmendOrder"
     /\ b_last'.order.kind = "Limit"
     /\ b_last'.order.order.order_id \in DOMAIN limit_orders) =>
       LET given == b_last'.order.order
           id == given.order_id
           old == limit_orders[id]
       IN  /\ DOMAIN limit_orders' = DOMAIN limit_orders
           /\ limit_orders'[id].price = given.price
           /\ limit_orders'[id].size = given.size
           /\ limit_orders'[id].order_id = id
           /\ limit_orders'[id].filled_size = old.filled_size
           /\ limit_orders'[id].side = old.side
           /\ limit_orders'[id].instrument_id = old.instrument_id
           /\ \A x \in DOMAIN limit_orders \ {id} : limit_orders'[x] = limit_orders[x]
           /\ cash' = cash
           /\ portfolio' = portfolio
           /\ broker_events_buf' =
                 Append(broker_events_buf, EvAmended(OrderLimit(limit_orders'[id])))

\* C11: AmendOrder for an order of the working set sets its price and size
\* to the new values, keeps its order_id and filled_size, leaves it in the
\* working set unmatched even when the new price crosses the touch, leaves
\* the other orders, cash and portfolio alone and queues exactly one Amended.
C11_AmendInPlace == [][C11_Step]_vars

\* A resting buy has just been amended to a price at or above the ask and is
\* still working; the amend it was given carried another filled_size.
C11_Witness ==
    /\ b_last.type = "AmendOrder"
    /\ b_last.order.kind = "Limit"
    /\ b_last.order.order.order_id \in DOMAIN limit_orders
    /\ LET o == limit_orders[b_last.order.order.order_id]
       IN  /\ o.side
           /\ o.price = b_last.order.order.price
           /\ o.size = b_last.order.order.size
           /\ o.filled_size # b_last.order.order.filled_size
           /\ o.price >= inst_matcher[o.instrument_id].ask_price
    /\ broker_events_buf # <<>>
    /\ Last(broker_events_buf).type = "Amended"

\* cost = effective_price * filled_size * (1 + fee_rate) - price * filled_size,
\* in units of 1/CashUnit, with the rates of the cost model in 1/RateScale.
CostOfFill(f) ==
    LET taker == f.exec_type = "Taker"
        fee == IF taker THEN tcm.taker_fee ELSE tcm.maker_fee
        slip == IF taker THEN tcm.slippage ELSE 0
        eff == IF f.side THEN f.price * (RateScale + slip)
               ELSE f.price * (RateScale - slip)
    IN  (CashUnit * eff * f.filled_size * (RateScale + fee)) \div (RateScale * RateScale)
        - CashUnit * f.price * f.filled_size

RECURSIVE CashAfter(_, _)
CashAfter(c, events) ==
    IF events = <<>> THEN c
    ELSE LET e == Head(events)
             f == e.fill
             c1 == IF e.type # "Fill" THEN c
                   ELSE IF f.side
                        THEN c - CostOfFill(f) - CashUnit * f.price * f.filled_size
                        ELSE c - CostOfFill(f) + CashUnit * f.price * f.filled_size
         IN  CashAfter(c1, Tail(events))

RECURSIVE NotionalAfter(_, _)
NotionalAfter(c, events) ==
    IF events = <<>> THEN c
    ELSE LET e == Head(events)
             c1 == IF e.type # "Fill" THEN c
                   ELSE IF e.fill.side
                        THEN c - CashUnit * e.fill.price * e.fill.filled_size
                        ELSE c + CashUnit * e.fill.price * e.fill.filled_size
         IN  NotionalAfter(c1, Tail(events))

C12_Step ==
    /\ cash' = CashAfter(cash, NewEvents)
    /\ (tcm.maker_fee = 0 /\ tcm.taker_fee = 0 /\ tcm.slippage = 0) =>
          cash' = NotionalAfter(cash, NewEvents)

\* C12: every Fill the broker produces first takes its cost off cash, cost =
\* effective_price * filled_size * (1 + fee_rate) - price * filled_size with
\* fee and slippage by Taker/Maker and no slippage for makers, and then
\* takes price * filled_size off cash for a buy or adds it for a sell; with
\* zero fees and slippage cash moves by exactly that notional; no step
\* without a Fill changes cash.
C12_CashAccounting == [][C12_Step]_vars

\* With fees and slippage charged, a data step has just filled a resting
\* order as maker and an earlier order was filled as taker.
C12_Witness ==
    /\ tcm.slippage > 0
    /\ tcm.maker_fee > 0
    /\ b_last.type = "data"
    /\ \E i, j \in 1..Len(AllEvents) :
          /\ AllEvents[i].type = "Fill"
          /\ AllEvents[i].fill.exec_type = "Taker"
          /\ AllEvents[j].type = "Fill"
          /\ AllEvents[j].fill.exec_type = "Maker"
          /\ AllEvents[j].at = dp_index

(***************************************************************************)
(*                   Properties of the AutoReconnect                       *)
(***************************************************************************)

\* C3: the inner sinks accept the items in the order start_send was given
\* them, each at most once, also across reconnects and with several items
\* buffered before a flush.
C3_AcceptedInSendOrder ==
    \A i, j \in 1..Len(a_accepted) :
       i < j => a_accepted[i].item < a_accepted[j].item

\* C24: the stream of AutoReconnect never returns its end (nor panics).  When
\* the current connection is dropped the factory is invoked for a connection
\* never made before and the call goes on; when the reconnect future fails
\* the factory is invoked again; every item delivered is the next item of the
\* newest connection, so no item of an earlier connection is delivered again.
C24_Step ==
    /\ a_ret' \notin {"None", "panic"}
    /\ (curr_conn # None /\ curr_conn' = None) =>
          /\ n_made' = n_made + 1
          /\ conn_future' = Some([conn |-> n_made + 1, completed |-> FALSE])
          /\ a_pc' # "idle"
    /\ (curr_conn = None /\ curr_conn' = None /\ conn_future' # conn_future) =>
          /\ n_made' = n_made + 1
          /\ conn_future' = Some([conn |-> n_made + 1, completed |-> FALSE])
          /\ a_pc' # "idle"
    /\ a_recv' # a_recv =>
          /\ curr_conn = Some(n_made)
          /\ a_recv' = Append(a_recv, [conn |-> n_made, k |-> conn_pos + 1])
          /\ \A i \in 1..Len(a_recv) :
                \/ a_recv[i].conn < n_made
                \/ a_recv[i].conn = n_made /\ a_recv[i].k <= conn_pos

C24_StreamNeverEnds == [][C24_Step]_vars

\* An item came from the first connection; that connection ended, a reconnect
\* future failed, and an item of the third connection was delivered.
C24_Witness ==
    /\ Len(a_recv) = 2
    /\ a_recv[1].conn = 0
    /\ a_recv[2].conn = 2
    /\ a_ret = "Some"

\* A reconnect future that has not completed yet is held.
FuturePending == conn_future # None /\ ~conn_future[1].completed

\* C33: at every moment exactly one of an active inner connection and a
\* pending reconnect future is held; with no active connection a future is
\* present, so that poll_set_conn's unwrap() finds one, and no call polls a
\* future that has completed.
C33_ConnOrPendingFuture ==
    /\ (curr_conn # None) # FuturePending
    /\ curr_conn = None => conn_future # None
    /\ a_ret # "panic"

\* A connection made by a future that followed a failed future is active, and
\* the completed future is still in its field.
C33_Witness ==
    /\ curr_conn # None
    /\ conn_future # None
    /\ conn_future[1].completed
    /\ curr_conn[1] = conn_future[1].conn
    /\ curr_conn[1] >= 2

\* The event is the Fill a data step made of order id.
IsDataFillOf(ev, id) == ev.type = "Fill" /\ ev.at > 0 /\ ev.fill.order_id = id

\* C37: in the order the events were queued, every Fill made by a data step
\* follows a Placed event of its order id with neither a Canceled event nor
\* another data step's Fill of that id in between: a placed order is filled
\* at most once, and not after its cancellation unless it is placed again.
C37_OneFillNoneAfterCancel ==
    \A j \in 1..Len(AllEvents) :
       (AllEvents[j].type = "Fill" /\ AllEvents[j].at > 0) =>
          \E i \in 1..(j - 1) :
             /\ AllEvents[i].type = "Placed"
             /\ AllEvents[i].order.order.order_id = AllEvents[j].fill.order_id
             /\ \A k \in (i + 1)..(j - 1) :
                   /\ ~(/\ AllEvents[k].type = "Canceled"
                        /\ AllEvents[k].order_id = AllEvents[j].fill.order_id)
                   /\ ~IsDataFillOf(AllEvents[k], AllEvents[j].fill.order_id)

\* An order was placed and cancelled, and a later data step brought a quote
\* that crosses it.
C37_Witness ==
    \E i, j, k \in 1..Len(AllEvents) :
       /\ i < j /\ j < k
       /\ AllEvents[i].type = "Placed"
       /\ AllEvents[j].type = "Canceled"
       /\ AllEvents[j].order_id = AllEvents[i].order.order.order_id
       /\ AllEvents[k].type = "Data"
       /\ LimitCrosses(AllEvents[k].data, AllEvents[i].order.order)

\* C28: after every data step that carries a new timestamp, and after every
\* step that filled an order, the value the Reporter holds for the current
\* bin is the broker's total value at the latest quotes.
C28_Step ==
    (\/ b_last'.type = "data" /\ b_ts' > b_ts
     \/ cash' # cash \/ portfolio' # portfolio)
        => reporter'.value_buf =
              TotalValue(Account(cash', portfolio', reporter'), inst_matcher')

C28_ReporterMarkedToMarket == [][C28_Step]_vars

\* C29: an insert whose ts lies before the boundary of the previous bin is
\* refused: it leaves the buffer and the history of the reporter as they were.
C29_Step ==
    (/\ Len(r_calls') = Len(r_calls) + 1
     /\ r_calls'[Len(r_calls')].op = "insert"
     /\ reporter.is_initialized
     /\ r_calls'[Len(r_calls')].ts < reporter.last_ts_bin)
        => /\ reporter'.value_buf = reporter.value_buf
           /\ reporter'.value_history = reporter.value_history

C29_LateInsertRefused == [][C29_Step]_vars

(***************************************************************************)
(*                           Specifications                                *)
(***************************************************************************)

NextReporter ==
    \/ RInsert /\ UNCHANGED <<mvars, bvars, avars, svars, evars, nvars>>
    \/ REnd /\ UNCHANGED <<mvars, bvars, avars, svars, evars, nvars>>

InitReporter == RInit /\ MParked /\ BParked /\ AParked /\ SParked /\ NParked

SpecReporter == InitReporter /\ [][NextReporter]_vars

NextMerger == MergerPollNext /\ UNCHANGED <<rvars, bvars, avars, svars, evars, nvars>>

InitMerger == MInit /\ RParked /\ BParked /\ AParked /\ SParked /\ NParked

SpecMerger == InitMerger /\ [][NextMerger]_vars

NextBroker ==
    \/ SendPlaceOrder /\ UNCHANGED <<mvars, avars, svars, evars, nvars, rc, seam, nb>>
    \/ SendAmendOrder /\ UNCHANGED <<mvars, avars, svars, evars, nvars, rc, seam, nb>>
    \/ SendCancelOrder /\ UNCHANGED <<mvars, avars, svars, evars, nvars, rc, seam, nb>>
    \/ PollNext /\ UNCHANGED <<mvars, avars, svars, evars, nvars, rc, seam, nb>>

InitBroker == BInit /\ MParked /\ AParked /\ SParked /\ NParked

SpecBroker == InitBroker /\ [][NextBroker]_vars

NextReconnect ==
    \/ APollNext /\ UNCHANGED <<rvars, mvars, bvars, svars, evars, nvars>>
    \/ APollReady /\ UNCHANGED <<rvars, mvars, bvars, svars, evars, nvars>>
    \/ AStartSend /\ UNCHANGED <<rvars, mvars, bvars, svars, evars, nvars>>
    \/ APollFlush /\ UNCHANGED <<rvars, mvars, bvars, svars, evars, nvars>>
    \/ APollClose /\ UNCHANGED <<rvars, mvars, bvars, svars, evars, nvars>>

InitReconnect == AInit /\ RParked /\ MParked /\ BParked /\ SParked /\ NParked

SpecReconnect == InitReconnect /\ [][NextReconnect]_vars

(***************************************************************************)
(*       Properties of NaiveLimitExecutor and SignalExecuteStrategy        *)
(***************************************************************************)

\* C13: the order ids one executor generates are pairwise distinct, the low
\* 16 bits of each equal the executor's tag, and the high bits count the
\* generated orders one by one.  s_ids holds the generated ids in order.
C13_IdsDistinctAndTagged ==
    \A i \in 1..Len(s_ids) :
       /\ \A j \in 1..Len(s_ids) : i # j => s_ids[i] # s_ids[j]
       /\ s_ids[i] % Pow2(TagBits) = executor.order_id_offset
       /\ s_ids[i] \div Pow2(TagBits) = i - 1

\* C14: no executor exists whose tag reaches into the counter bits: a tag of
\* 2^16 or more is rejected by the constructor.
C14_TagBelowCounterBits == executor.order_id_offset < Pow2(TagBits)

\* The last call was on_event.
Called == s_call.type = "on_event"

\* C15: a non-empty batch returned at timestamp t is followed by empty
\* batches for every event with timestamp in [t, t + event_interval): the
\* next non-empty batch comes at t + event_interval or later.
C15_Cooling ==
    (Called /\ s_call.outer # <<>> /\ s_call.emit_before # None)
        => s_call.now >= s_call.emit_before[1] + executor.event_interval

\* A second non-empty batch under a positive event_interval.
C15_Witness ==
    /\ Called /\ s_call.outer # <<>> /\ s_call.emit_before # None
    /\ executor.event_interval > 0

\* The executor as the last call's on_signal found it: after update.
CallEx == ExUpdate(s_call.before, s_call.event)

\* The target order <<size, price>> of the last call's on_signal.
CallArg == CalcTargetOrderArg(CallEx, GetIdealPosition(CallEx, s_call.signal))

\* The last call ran on_signal past its early return.
Signalled == Called /\ s_call.event.type = "Data" /\ ~ExIsCooling(CallEx)

\* on_signal met a working order and a target order on the opposite side.
OppositeSide ==
    /\ Signalled
    /\ CallEx.placed_order # None
    /\ ~ApproxEq(0, CallArg[1], CallEx.size_eps)
    /\ CallEx.placed_order[1].side # (CallArg[1] > 0)

\* The limit order on_signal generates for its target order, with the next
\* id of the executor.
CallNewOrder ==
    [order_id |-> GetNextOrderId(CallEx)[1], instrument_id |-> CallEx.instrument_id,
     price |-> CallArg[2], size |-> Abs(CallArg[1]), filled_size |-> 0,
     side |-> CallArg[1] > 0]

\* The target order is worth at least notional_threshold.
CallAboveThreshold == ThresholdDiv * Abs(CallArg[1]) * CallArg[2] >= CallEx.notional

\* C17 as stated: with a working order and a target on the opposite side the
\* executor returns CancelOrder(old id) then PlaceOrder(new order with a newly
\* generated id), and the new order is its working order.
C17_CancelThenPlace ==
    OppositeSide =>
        /\ s_call.inner = <<CancelOrder(CallEx.placed_order[1].order_id),
                            PlaceOrder(OrderLimit(CallNewOrder))>>
        /\ executor.placed_order = Some(CallNewOrder)

\* C17, amended: CancelOrder(old id) is always returned first; PlaceOrder of
\* the new order follows, and the new order becomes the working order, exactly
\* when |target size| * price >= 0.05 * notional; otherwise the cancel is the
\* whole batch, no id is taken, and the executor is left with no working order.
C17_CancelThenPlaceAboveThreshold ==
    OppositeSide =>
        /\ s_call.inner[1] = CancelOrder(CallEx.placed_order[1].order_id)
        /\ CallAboveThreshold =>
              /\ s_call.inner = <<s_call.inner[1], PlaceOrder(OrderLimit(CallNewOrder))>>
              /\ executor.placed_order = Some(CallNewOrder)
              /\ executor.next_order_id_body = CallEx.next_order_id_body + 1
        /\ ~CallAboveThreshold =>
              /\ Len(s_call.inner) = 1
              /\ executor.placed_order = None
              /\ executor.next_order_id_body = CallEx.next_order_id_body

\* A cancel followed by a place.
C17_Witness == OppositeSide /\ Len(s_call.inner) = 2

\* on_signal met a working order and a target order on its side.
SameSide ==
    /\ Signalled
    /\ CallEx.placed_order # None
    /\ ~ApproxEq(0, CallArg[1], CallEx.size_eps)
    /\ CallEx.placed_order[1].side = (CallArg[1] > 0)

\* The working order's unfilled size or price is off the target.
OffTarget ==
    \/ Abs((CallEx.placed_order[1].size - CallEx.placed_order[1].filled_size)
             - Abs(CallArg[1])) > CallEx.size_eps
    \/ CallEx.placed_order[1].price # CallArg[2]

\* C18: with a working order on the target's side the executor returns exactly
\* one AmendOrder when the unfilled size differs from the target size by more
\* than size_eps or the price differs, and nothing otherwise; the amend keeps
\* the order id and filled_size, carries the target price and the size
\* filled_size + target size, so its working quantity is the target size.
C18_AmendOnSameSide ==
    SameSide =>
        IF OffTarget
        THEN /\ Len(s_call.inner) = 1
             /\ s_call.inner[1].type = "AmendOrder"
             /\ s_call.inner[1].order.kind = "Limit"
             /\ LET old == CallEx.placed_order[1]
                    new == s_call.inner[1].order.order
                IN  /\ new.order_id = old.order_id
                    /\ new.instrument_id = old.instrument_id
                    /\ new.side = old.side
                    /\ new.filled_size = old.filled_size
                    /\ new.price = CallArg[2]
                    /\ new.size = old.filled_size + Abs(CallArg[1])
                    /\ new.size - new.filled_size = Abs(CallArg[1])
        ELSE s_call.inner = <<>>

\* An amend of a partly filled working order.
C18_Witness ==
    /\ SameSide /\ OffTarget
    /\ CallEx.placed_order[1].filled_size > 0
    /\ Len(s_call.inner) = 1

\* C19: a Fill adds its signed filled_size to the position; a Filled fill
\* clears the working order, a Partially fill keeps it with filled_size set to
\* the fill's acc_filled_size; Placed, Amended and Canceled events change
\* neither the position nor the working order.
C19_UpdateOnFill ==
    Called =>
        /\ s_call.event.type = "Fill" =>
              /\ executor.position =
                    s_call.before.position
                      + (IF s_call.event.fill.side THEN s_call.event.fill.filled_size
                         ELSE 0 - s_call.event.fill.filled_size)
              /\ s_call.event.fill.state = "Filled" => executor.placed_order = None
              /\ (s_call.event.fill.state = "Partially"
                     /\ s_call.before.placed_order # None) =>
                    /\ executor.placed_order # None
                    /\ executor.placed_order[1] =
                          [s_call.before.placed_order[1] EXCEPT
                             !.filled_size = s_call.event.fill.acc_filled_size]
        /\ s_call.event.type \in {"Placed", "Amended", "Canceled"} =>
              /\ executor.position = s_call.before.position
              /\ executor.placed_order = s_call.before.placed_order

\* A Filled fill of a partly filled working order.
C19_Witness ==
    /\ Called /\ s_call.event.type = "Fill"
    /\ s_call.event.fill.state = "Filled"
    /\ s_call.before.placed_order # None
    /\ s_call.before.placed_order[1].filled_size > 0
    /\ executor.position # 0

\* on_signal got no signal while the position is not clear.
NoSignalWithPosition ==
    /\ Signalled
    /\ s_call.signal = None
    /\ Abs(CallEx.position) > CallEx.size_eps

\* The holding time of the last signal is over.
Expired == CallEx.bbo.ts - CallEx.last_signal_ts >= CallEx.holding_duration

\* The order that closes the whole position: on the opposite side, at the
\* price of that side.
CloseOrder ==
    [order_id |-> GetNextOrderId(CallEx)[1], instrument_id |-> CallEx.instrument_id,
     price |-> IF CallEx.position < 0
               THEN CallEx.bbo.bid_price + CallEx.price_offset
               ELSE CallEx.bbo.ask_price - CallEx.price_offset,
     size |-> Abs(CallEx.position), filled_size |-> 0,
     side |-> CallEx.position < 0]

\* The closing order is worth at least notional_threshold.
CloseAboveThreshold ==
    ThresholdDiv * CloseOrder.size * CloseOrder.price >= CallEx.notional

\* The batch places an order.
Places(batch) == \E n \in 1..Len(batch) : batch[n].type = "PlaceOrder"

\* C20 as stated: on no signal with a non-clear position, before the holding
\* time is over no order is placed and a still-working order is cancelled;
\* once it is over an order for the whole position is placed on the opposite
\* side.
C20_HoldThenClose ==
    NoSignalWithPosition =>
        IF Expired
        THEN \E n \in 1..Len(s_call.inner) :
                s_call.inner[n] = PlaceOrder(OrderLimit(CloseOrder))
        ELSE /\ ~Places(s_call.inner)
             /\ CallEx.placed_order # None =>
                   s_call.inner = <<CancelOrder(CallEx.placed_order[1].order_id)>>

\* C20, amended: before the holding time is over the target is the current
\* position: nothing is placed and a still-working order is cancelled.  Once
\* it is over the target is zero and the target order is the whole position
\* on the opposite side.  With no working order, or one on the other side
\* (cancelled first), that order is placed exactly when |position| * price >=
\* 0.05 * notional; with a working order already on the closing side nothing
\* is placed and that order is left, or amended to be, an order for the whole
\* position at the closing price.
C20_HoldThenCloseAboveThreshold ==
    NoSignalWithPosition =>
        IF ~Expired
        THEN /\ GetIdealPosition(CallEx, None) = CallEx.position
             /\ s_call.inner = IF CallEx.placed_order = None THEN <<>>
                               ELSE <<CancelOrder(CallEx.placed_order[1].order_id)>>
             /\ executor.placed_order = None
        ELSE /\ GetIdealPosition(CallEx, None) = 0
             /\ IF CallEx.placed_order = None
                THEN s_call.inner = IF CloseAboveThreshold
                                    THEN <<PlaceOrder(OrderLimit(CloseOrder))>>
                                    ELSE <<>>
                ELSE IF CallEx.placed_order[1].side # CloseOrder.side
                THEN s_call.inner =
                        <<CancelOrder(CallEx.placed_order[1].order_id)>>
                          \o (IF CloseAboveThreshold
                              THEN <<PlaceOrder(OrderLimit(CloseOrder))>>
                              ELSE <<>>)
                ELSE /\ ~Places(s_call.inner)
                     /\ executor.placed_order # None
                     /\ executor.placed_order[1].order_id
                           = CallEx.placed_order[1].order_id
                     /\ Abs(UnfilledSize(executor.placed_order[1]) - CloseOrder.size)
                           <= CallEx.size_eps
                     /\ executor.placed_order[1].price = CloseOrder.price

\* The position is closed by a placed order once the holding time is over.
C20_Witness ==
    /\ NoSignalWithPosition /\ Expired
    /\ Places(s_call.inner)

\* C16: at every point of an Engine run the broker's working set holds at
\* most one limit order of the executor, the broker's only client.
C16_AtMostOneWorking == Cardinality(DOMAIN limit_orders) <= 1

\* C21: filled_size <= size for the executor's working order and for every
\* order of the broker's working set, whatever the interleaving of the
\* executor's amends with the fills the broker reports.
C21_FilledWithinSize ==
    /\ executor.placed_order # None =>
          executor.placed_order[1].filled_size <= executor.placed_order[1].size
    /\ \A id \in DOMAIN limit_orders :
          limit_orders[id].filled_size <= limit_orders[id].size

\* One step of Engine::run keeps the loop's order: a broker event is pulled
\* only when every earlier event has been passed to the strategy and every
\* client event returned has been fed; the strategy gets the event just
\* pulled, once; client events are fed head first; the loop is over exactly
\* when the broker's stream has ended.
C22_Step ==
    /\ emitted' # emitted =>
          /\ e_batch = <<>>
          /\ s_n = Len(emitted)
          /\ Len(emitted') = Len(emitted) + 1
    /\ s_n' # s_n =>
          /\ s_n' = s_n + 1
          /\ Len(emitted) = s_n'
          /\ s_call'.event = emitted[s_n']
          /\ e_batch' = s_call'.outer
          /\ b_last' = b_last
    /\ (e_batch' # e_batch /\ s_n' = s_n) =>
          /\ e_batch # <<>>
          /\ b_last' = Head(e_batch)
          /\ e_batch' = Tail(e_batch)
          /\ emitted' = emitted
    /\ (e_pc' = "done") = dp_ended'

\* C22: Engine::run handles the broker's events one at a time, each passed to
\* the strategy exactly once in the order yielded, with all client events
\* returned for it fed to the broker in order before the next event is
\* pulled; the loop ends when and only when the broker's stream ends.
C22_OneAtATime == [][C22_Step]_vars

\* The first of two client events has been fed, the second is still to feed.
C22_Witness ==
    /\ e_pc = "feed"
    /\ Len(s_call.outer) = 2
    /\ e_batch = Tail(s_call.outer)
    /\ b_last = s_call.outer[1]

\* C32: a signal that is not None and reaches the executor while it is
\* cooling is recorded (last_signal and last_signal_ts take the signal and
\* the time of the data), and only the output is suppressed.
C32_SignalRecordedWhileCooling ==
    (/\ s_call.type = "on_event"
     /\ s_call.event.type = "Data"
     /\ s_call.signal # None
     /\ ExIsCooling(ExUpdate(s_call.before, s_call.event)))
    => /\ s_call.inner = <<>>
       /\ executor.last_signal = s_call.signal
       /\ executor.last_signal_ts = s_call.event.data.ts

\* The Fill events a venue can still send for the order that the last call
\* cancelled: the fills made before the cancellation reached the venue.
StaleFills ==
    IF /\ s_call.type = "on_event"
       /\ s_call.inner # <<>>
       /\ s_call.inner[1].type = "CancelOrder"
    THEN {[order_id |-> s_call.before.placed_order[1].order_id,
           instrument_id |-> s_call.before.placed_order[1].instrument_id,
           side |-> s_call.before.placed_order[1].side,
           price |-> s_call.before.placed_order[1].price,
           filled_size |-> sz,
           acc_filled_size |-> s_call.before.placed_order[1].filled_size + sz,
           exec_type |-> "Maker",
           state |-> IF sz = UnfilledSize(s_call.before.placed_order[1])
                     THEN "Filled" ELSE "Partially"] :
             sz \in {x \in PartSizes \cup {UnfilledSize(s_call.before.placed_order[1])} :
                         /\ x > 0
                         /\ x <= UnfilledSize(s_call.before.placed_order[1])}}
    ELSE {}

\* on_event with a late Fill of an earlier order.
SOnStaleFill ==
    \E fill \in StaleFills :
       OnEvent(EvFill(fill, 0), None, executor.bbo.ts)

\* C35: a Fill whose order_id is not the id of the executor's working order
\* changes the position only; the working order is as it was.
C35_StaleFillKeepsWorkingOrder ==
    (/\ s_call.type = "on_event"
     /\ s_call.event.type = "Fill"
     /\ s_call.before.placed_order # None
     /\ s_call.event.fill.order_id # s_call.before.placed_order[1].order_id)
    => /\ executor.placed_order = s_call.before.placed_order
       /\ executor.position
            = s_call.before.position + SignedSize(s_call.event.fill)

\* C36: a batch by which the executor changed its record of the working
\* order is returned by Strategy::on_event as the executor made it.
C36_RecordedBatchReturned ==
    (s_call.type = "on_event" /\ s_call.inner # <<>>) => s_call.outer = s_call.inner

\* A Fill the broker has made and the executor has not been given yet: in
\* the broker's buffer, or pulled by the engine and on its way to on_event.
FillUndelivered ==
    \/ \E n \in DOMAIN broker_events_buf : broker_events_buf[n].type = "Fill"
    \/ e_pc = "strategy" /\ e_event # None /\ e_event[1].type = "Fill"

\* C38: in an Engine run, whenever no Fill is undelivered the executor's
\* position is the broker's portfolio position of the instrument.
C38_PositionsAgree ==
    ~FillUndelivered => executor.position = PositionSize(ExInst)

\* The executor has been given a Fill and holds a position.
C38_Witness ==
    /\ ~FillUndelivered
    /\ executor.position # 0
    /\ \E n \in DOMAIN emitted : emitted[n].type = "Fill"

NextStrategy ==
    \/ SOnData /\ UNCHANGED <<rvars, mvars, bvars, avars, evars, nvars>>
    \/ SOnFill /\ UNCHANGED <<rvars, mvars, bvars, avars, evars, nvars>>
    \/ SOnFillInFlight /\ UNCHANGED <<rvars, mvars, bvars, avars, evars, nvars>>
    \/ SOnOrderEvent /\ UNCHANGED <<rvars, mvars, bvars, avars, evars, nvars>>

InitStrategy == SInit /\ RParked /\ MParked /\ BParked /\ AParked /\ NParked

SpecStrategy == InitStrategy /\ [][NextStrategy]_vars

NextStaleFills ==
    \/ SOnData /\ UNCHANGED <<rvars, mvars, bvars, avars, evars, nvars>>
    \/ SOnFill /\ UNCHANGED <<rvars, mvars, bvars, avars, evars, nvars>>
    \/ SOnFillInFlight /\ UNCHANGED <<rvars, mvars, bvars, avars, evars, nvars>>
    \/ SOnOrderEvent /\ UNCHANGED <<rvars, mvars, bvars, avars, evars, nvars>>
    \/ SOnStaleFill /\ UNCHANGED <<rvars, mvars, bvars, avars, evars, nvars>>

SpecStaleFills == InitStrategy /\ [][NextStaleFills]_vars

NextEngine ==
    \/ EPoll /\ UNCHANGED <<mvars, avars, nvars>>
    \/ EStrategy /\ UNCHANGED <<mvars, avars, nvars>>
    \/ EFeed /\ UNCHANGED <<mvars, avars, nvars>>

InitEngine == BInit /\ SInit /\ MParked /\ AParked /\ NParked

SpecEngine == InitEngine /\ [][NextEngine]_vars

(***************************************************************************)
(*              Heartbeat (src/data_center/src/utils.rs:42-136)            *)
(*                                                                         *)
(* Time is counted in whole units.  A tokio Interval is its next deadline: *)
(* interval(period) starts with the deadline at its construction time,     *)
(* reset() moves the deadline to now + period, and a poll_tick that finds  *)
(* now >= deadline is ready and moves the deadline on by one period.       *)
(***************************************************************************)

MaxTime == 8
Intervals == {2, 3}
PongTimeouts == {1, 3}
SendOutcomes == {"ok", "send_err", "flush_err"}
InnerItems == {"pending", "data", "end"}

\* Heartbeat::new at time 0, for the two configured durations.
HeartbeatNew(interval, pong_timeout) ==
    [interval |-> interval, pong_timeout |-> pong_timeout,
     ping_ticker |-> 0, pong_timer |-> 0,
     is_waiting_pong |-> FALSE, is_started |-> FALSE,
     now |-> 0, ret |-> "none", cause |-> "", sent |-> 0,
     got |-> FALSE, silent |-> TRUE,
     first_ping |-> None, last_ping |-> None]

\* The poll has returned: its result is recorded.
HbReturn(h, ret) == [h EXCEPT !.ret = ret, !.cause = ""]

\* The poll has returned the end of the stream, for the cause named.
HbEnd(h, cause) == [h EXCEPT !.ret = "end", !.cause = cause]

\* The loop over the inner stream: `pongs` frames "pong" are consumed, then
\* the inner stream answers `item`.  Every frame taken resets the ping ticker
\* and clears the pending pong.
HbInbound(h) ==
    [h EXCEPT !.ping_ticker = h.now + h.interval, !.is_waiting_pong = FALSE,
              !.got = TRUE, !.silent = FALSE, !.first_ping = None]

HbPollInner(h, pongs, item) ==
    IF item = "data" THEN HbReturn(HbInbound(h), "data")
    ELSE IF item = "end" THEN HbEnd(IF pongs > 0 THEN HbInbound(h) ELSE h, "inner")
    ELSE HbReturn(IF pongs > 0 THEN HbInbound(h) ELSE h, "pending")

\* A mutant of HbSendPing: a ping sent while a pong is pending leaves the
\* running pong timer alone.
HbSendPing_KeepTimer(h) ==
    [h EXCEPT !.is_waiting_pong = TRUE,
              !.pong_timer = IF h.is_waiting_pong THEN h.pong_timer
                             ELSE h.now + h.pong_timeout,
              !.sent = h.sent + 1,
              !.first_ping = IF h.first_ping = None THEN Some(h.now) ELSE h.first_ping,
              !.last_ping = Some(h.now)]

\* The ping was sent: the pong is pending and the pong timer is re-armed.
HbSendPing(h) ==
    [h EXCEPT !.is_waiting_pong = TRUE,
              !.pong_timer = h.now + h.pong_timeout,
              !.sent = h.sent + 1,
              !.first_ping = IF h.first_ping = None THEN Some(h.now) ELSE h.first_ping,
              !.last_ping = Some(h.now)]

\* The ping ticker is polled; when it is ready the ping is sent.
HbPollPing(h, send, pongs, item) ==
    IF h.now >= h.ping_ticker
    THEN IF send = "send_err"
         THEN HbEnd([h EXCEPT !.ping_ticker = h.ping_ticker + h.interval], "send")
         ELSE IF send = "flush_err"
         THEN HbReturn([h EXCEPT !.ping_ticker = h.ping_ticker + h.interval], "err")
         ELSE HbPollInner(HbSendPing([h EXCEPT !.ping_ticker = h.ping_ticker + h.interval]),
                          pongs, item)
    ELSE HbPollInner(h, pongs, item)

\* The pong timer is polled only while a pong is pending.
HbPollPong(h, send, pongs, item) ==
    IF h.is_waiting_pong /\ h.now >= h.pong_timer
    THEN HbEnd([h EXCEPT !.pong_timer = h.pong_timer + h.pong_timeout], "pong_timer")
    ELSE HbPollPing(h, send, pongs, item)

\* The first poll arms the ping ticker.
HbStart(h) ==
    IF h.is_started THEN [h EXCEPT !.got = FALSE]
    ELSE [h EXCEPT !.ping_ticker = h.now + h.interval, !.is_started = TRUE,
                   !.got = FALSE]

HeartbeatPollNext(h, send, pongs, item) == HbPollPong(HbStart(h), send, pongs, item)

HInit == \E interval \in Intervals, pong_timeout \in PongTimeouts :
            hb = HeartbeatNew(interval, pong_timeout)

\* Time passes.
HTick ==
    /\ hb.now < MaxTime
    /\ hb' = [hb EXCEPT !.now = hb.now + 1]

\* Heartbeat::poll_next, for every answer of the inner duplex.  A stream that
\* has ended is not polled again.
HPollNext ==
    /\ hb.ret # "end"
    /\ \E send \in SendOutcomes, pongs \in {0, 1}, item \in InnerItems :
          hb' = HeartbeatPollNext(hb, send, pongs, item)

\* A step of the specification that is one call of Heartbeat::poll_next.
HbPolled == hb'.now = hb.now

\* C23 (as stated): a ping is sent only once the ping ticker has elapsed and
\* leaves a pong pending; a poll made when a pong has been pending, with no
\* inbound frame, for the pong timeout since the ping that set it pending
\* returns the end of the stream, whatever the two durations; a frame that
\* arrives clears the pending flag and the stream goes on.
C23_StepSinceFirstPing ==
    HbPolled =>
        /\ hb'.sent > hb.sent =>
              /\ hb.is_started /\ hb.now >= hb.ping_ticker
              /\ hb'.is_waiting_pong \/ hb'.got
        /\ (hb.first_ping # None /\ hb.now >= hb.first_ping[1] + hb.pong_timeout)
              => hb'.ret = "end"
        /\ hb'.got =>
              /\ ~hb'.is_waiting_pong
              /\ hb'.ret = "end" => hb'.cause = "inner"

C23_StepSinceLastPing ==
    HbPolled =>
        /\ hb'.sent > hb.sent =>
              /\ hb.is_started /\ hb.now >= hb.ping_ticker
              /\ hb'.last_ping = Some(hb.now)
              /\ hb'.is_waiting_pong \/ hb'.got
        /\ (hb.is_waiting_pong /\ hb.now >= hb.last_ping[1] + hb.pong_timeout)
              => hb'.ret = "end"
        /\ (hb'.ret = "end" /\ hb'.cause = "pong_timer")
              => hb.is_waiting_pong /\ hb.now >= hb.last_ping[1] + hb.pong_timeout
        /\ hb'.got =>
              /\ ~hb'.is_waiting_pong
              /\ hb'.ret = "end" => hb'.cause = "inner"

NextHeartbeat ==
    \/ HTick /\ UNCHANGED <<rvars, mvars, bvars, avars, svars, evars, wsa, conn, codec, l1s, det, rc, seam, nb>>
    \/ HPollNext /\ UNCHANGED <<rvars, mvars, bvars, avars, svars, evars, wsa, conn, codec, l1s, det, rc, seam, nb>>

InitHeartbeat ==
    /\ HInit /\ RParked /\ MParked /\ BParked /\ AParked /\ SParked
    /\ wsa = <<>> /\ conn = <<>> /\ codec = <<>> /\ l1s = <<>> /\ det = <<>> /\ rc = <<>> /\ seam = <<>> /\ nb = <<>>

SpecHeartbeat == InitHeartbeat /\ [][NextHeartbeat]_vars

(***************************************************************************)
(*        OkxWsStreamAdapted (src/data_center/src/okx_api.rs:249-358)      *)
(*                                                                         *)
(* Each inner stream is the queue of the items it has ready, in order; a   *)
(* poll of it takes the first, is Pending when the queue is empty, and     *)
(* returns None once the stream has ended and its queue is drained.        *)
(***************************************************************************)

MaxReady == 3

\* connect_adapted: both sessions are connected, nothing has arrived.
WInit ==
    wsa = [public |-> <<>>, private |-> <<>>,
           public_ended |-> FALSE, private_ended |-> FALSE,
           n_public |-> 0, n_private |-> 0,
           ret |-> "none", out |-> <<>>]

\* What a poll of an inner stream with queue q returns.
InnerPollNext(q, ended) ==
    IF q # <<>> THEN "Some"
    ELSE IF ended THEN "None"
    ELSE "Pending"

\* OkxWsStreamAdapted::poll_next: ready! returns Pending as soon as the
\* public stream is Pending; the private stream is polled only after the
\* public stream has returned None.
AdaptedPollNext(w) ==
    IF InnerPollNext(w.public, w.public_ended) = "Pending"
    THEN [w EXCEPT !.ret = "Pending"]
    ELSE IF InnerPollNext(w.public, w.public_ended) = "Some"
    THEN [w EXCEPT !.public = Tail(w.public), !.ret = "Some",
                   !.out = Append(w.out, Head(w.public))]
    ELSE IF InnerPollNext(w.private, w.private_ended) = "Pending"
    THEN [w EXCEPT !.ret = "Pending"]
    ELSE IF InnerPollNext(w.private, w.private_ended) = "Some"
    THEN [w EXCEPT !.private = Tail(w.private), !.ret = "Some",
                   !.out = Append(w.out, Head(w.private))]
    ELSE [w EXCEPT !.ret = "None"]

\* An item becomes ready on the public session.
WPublicItem ==
    /\ ~wsa.public_ended
    /\ wsa.n_public < MaxReady
    /\ wsa' = [wsa EXCEPT !.n_public = wsa.n_public + 1,
                          !.public = Append(wsa.public,
                                            [src |-> "public", k |-> wsa.n_public + 1])]

\* An order event becomes ready on the private session.
WPrivateItem ==
    /\ ~wsa.private_ended
    /\ wsa.n_private < MaxReady
    /\ wsa' = [wsa EXCEPT !.n_private = wsa.n_private + 1,
                          !.private = Append(wsa.private,
                                             [src |-> "private", k |-> wsa.n_private + 1])]

\* An inner stream ends (S is any duplex; an AutoReconnect never does).
WPublicEnd == ~wsa.public_ended /\ wsa' = [wsa EXCEPT !.public_ended = TRUE]

WPrivateEnd == ~wsa.private_ended /\ wsa' = [wsa EXCEPT !.private_ended = TRUE]

\* One call of OkxWsStreamAdapted::poll_next.
WPollNext ==
    /\ wsa.ret # "None"
    /\ wsa' = AdaptedPollNext(wsa)

\* The step is a poll: the queues of arrivals did not grow, nothing ended.
WPolled ==
    /\ wsa'.n_public = wsa.n_public /\ wsa'.n_private = wsa.n_private
    /\ wsa'.public_ended = wsa.public_ended
    /\ wsa'.private_ended = wsa.private_ended

\* C25: a poll yields the first ready item of the public stream if there is
\* one, and otherwise the first ready item of the private stream if there is
\* one, also while the public stream is merely waiting for its next item.
C25_Step ==
    WPolled =>
        /\ wsa.public # <<>> =>
              wsa'.ret = "Some" /\ wsa'.out = Append(wsa.out, Head(wsa.public))
        /\ (wsa.public = <<>> /\ wsa.private # <<>>) =>
              wsa'.ret = "Some" /\ wsa'.out = Append(wsa.out, Head(wsa.private))

C25_PublicThenPrivate == [][C25_Step]_vars

NextAdapted ==
    \/ WPublicItem /\ UNCHANGED <<rvars, mvars, bvars, avars, svars, evars, hb, conn, codec, l1s, det, rc, seam, nb>>
    \/ WPrivateItem /\ UNCHANGED <<rvars, mvars, bvars, avars, svars, evars, hb, conn, codec, l1s, det, rc, seam, nb>>
    \/ WPublicEnd /\ UNCHANGED <<rvars, mvars, bvars, avars, svars, evars, hb, conn, codec, l1s, det, rc, seam, nb>>
    \/ WPrivateEnd /\ UNCHANGED <<rvars, mvars, bvars, avars, svars, evars, hb, conn, codec, l1s, det, rc, seam, nb>>
    \/ WPollNext /\ UNCHANGED <<rvars, mvars, bvars, avars, svars, evars, hb, conn, codec, l1s, det, rc, seam, nb>>

InitAdapted ==
    /\ WInit /\ RParked /\ MParked /\ BParked /\ AParked /\ SParked
    /\ hb = <<>> /\ conn = <<>> /\ codec = <<>> /\ l1s = <<>> /\ det = <<>> /\ rc = <<>> /\ seam = <<>> /\ nb = <<>>

SpecAdapted == InitAdapted /\ [][NextAdapted]_vars

(***************************************************************************)
(*     connect and OkxWsStream::login (src/data_center/src/okx_api.rs)     *)
(*                                                                         *)
(* The future the connection factory returns is followed await by await;   *)
(* AutoReconnect calls the factory again after a failed attempt and after  *)
(* the end of an established connection.                                   *)
(***************************************************************************)

MaxAttempts == 3
MaxSubs == 2
Endpoints == {"Public", "Private", "PublicSimu", "PrivateSimu"}

\* What the server's first frame after the login message may be.
FirstResponses ==
    {"login_ack", "error_event", "subscribe_event", "data_push", "not_json",
     "ws_error", "end"}

\* OkxWsEndpoint::is_private
EndpointIsPrivate(endpoint) == endpoint \in {"Private", "PrivateSimu"}

\* The factory is called: a new attempt, nothing sent on it yet.
NewAttempt(endpoint, subs, attempt) ==
    [endpoint |-> endpoint, subs |-> subs, attempt |-> attempt,
     pc |-> "connect", sent |-> <<>>, response |-> None]

\* connect(endpoint, subscribe_actions) up to the first call of the factory.
CInit == \E endpoint \in Endpoints, subs \in 0..MaxSubs :
            conn = NewAttempt(endpoint, subs, 1)

\* A mutant of NeedsLogin: only the first connection logs in.
NeedsLogin_FirstOnly(c) == EndpointIsPrivate(c.endpoint) /\ c.attempt = 1

\* `if endpoint.is_private() { ws_stream.login().await?; }`
NeedsLogin(c) == EndpointIsPrivate(c.endpoint)

\* The frames sent on the attempt, and how many of them are subscriptions.
Sent(c) == {c.sent[i] : i \in 1..Len(c.sent)}

Subscribed(c) == Cardinality({i \in 1..Len(c.sent) : c.sent[i] = "subscribe"})

\* Where the future goes on once the login is behind it: the loop over
\* subscribe_actions, then Ok(ws_stream).
AfterLogin(c) == IF Subscribed(c) < c.subs THEN "subscribe" ELSE "established"

\* connect_async(endpoint.url()).await?
CConnect ==
    /\ conn.pc = "connect"
    /\ \/ conn' = [conn EXCEPT !.pc = "failed"]
       \/ conn' = [conn EXCEPT !.pc = IF NeedsLogin(conn) THEN "login" ELSE AfterLogin(conn)]

\* login: the login message is sent; a send error fails the attempt.
CLoginSend ==
    /\ conn.pc = "login"
    /\ \/ conn' = [conn EXCEPT !.pc = "failed"]
       \/ conn' = [conn EXCEPT !.sent = Append(conn.sent, "login"), !.pc = "response"]

\* login: the next frame is awaited and examined.  The end of the stream, a
\* transport error, text that is not JSON and JSON without an "event" string
\* each fail an unwrap(); an event other than "login" bails.
LoginOutcome(resp) ==
    IF resp = "login_ack" THEN "Ok"
    ELSE IF resp \in {"error_event", "subscribe_event"} THEN "failed"
    ELSE "panicked"

CLoginResponse ==
    /\ conn.pc = "response"
    /\ \E resp \in FirstResponses :
          conn' = [conn EXCEPT !.response = Some(resp),
                               !.pc = IF LoginOutcome(resp) = "Ok"
                                      THEN AfterLogin(conn)
                                      ELSE LoginOutcome(resp)]

\* `for request in subscribe_actions { ws_stream.send(request).await? }`
CSubscribe ==
    /\ conn.pc = "subscribe"
    /\ \/ conn' = [conn EXCEPT !.pc = "failed"]
       \/ conn' = [conn EXCEPT !.sent = Append(conn.sent, "subscribe"),
                               !.pc = IF Subscribed(conn) + 1 < conn.subs
                                      THEN "subscribe" ELSE "established"]

\* AutoReconnect calls the factory again: the attempt failed, or the
\* established connection's stream ended.
CReconnect ==
    /\ conn.pc \in {"failed", "established"}
    /\ conn.attempt < MaxAttempts
    /\ conn' = NewAttempt(conn.endpoint, conn.subs, conn.attempt + 1)

\* C26: on every attempt at a private endpoint the login message is the first
\* frame sent, and a subscription is sent only after the first response has
\* been found to be the login acknowledgement; any other first response fails
\* the attempt with no subscription sent; an attempt at a public endpoint
\* sends no login.
C26_LoginBeforeSubscribe ==
    /\ EndpointIsPrivate(conn.endpoint) =>
          /\ conn.sent # <<>> => conn.sent[1] = "login"
          /\ "subscribe" \in Sent(conn) => conn.response = Some("login_ack")
          /\ conn.pc = "established" => conn.response = Some("login_ack")
          /\ (conn.response # None /\ conn.response # Some("login_ack")) =>
                /\ conn.pc \in {"failed", "panicked"}
                /\ "subscribe" \notin Sent(conn)
    /\ ~EndpointIsPrivate(conn.endpoint) => "login" \notin Sent(conn)

\* A reconnection of a private endpoint has logged in and subscribed.
C26_Witness ==
    /\ conn # <<>>
    /\ EndpointIsPrivate(conn.endpoint)
    /\ conn.attempt > 1
    /\ conn.pc = "established"
    /\ conn.sent = <<"login", "subscribe">>

NextConnect ==
    \/ CConnect /\ UNCHANGED <<rvars, mvars, bvars, avars, svars, evars, hb, wsa, codec, l1s, det, rc, seam, nb>>
    \/ CLoginSend /\ UNCHANGED <<rvars, mvars, bvars, avars, svars, evars, hb, wsa, codec, l1s, det, rc, seam, nb>>
    \/ CLoginResponse /\ UNCHANGED <<rvars, mvars, bvars, avars, svars, evars, hb, wsa, codec, l1s, det, rc, seam, nb>>
    \/ CSubscribe /\ UNCHANGED <<rvars, mvars, bvars, avars, svars, evars, hb, wsa, codec, l1s, det, rc, seam, nb>>
    \/ CReconnect /\ UNCHANGED <<rvars, mvars, bvars, avars, svars, evars, hb, wsa, codec, l1s, det, rc, seam, nb>>

InitConnect ==
    /\ CInit /\ RParked /\ MParked /\ BParked /\ AParked /\ SParked
    /\ hb = <<>> /\ wsa = <<>> /\ codec = <<>> /\ l1s = <<>> /\ det = <<>> /\ rc = <<>> /\ seam = <<>> /\ nb = <<>>

SpecConnect == InitConnect /\ [][NextConnect]_vars

(***************************************************************************)
(*   OkxWsStream::poll_next (src/data_center/src/okx_api.rs:190-247) and   *)
(*   the conversions of src/data_center/src/okx_api/pushes.rs              *)
(*                                                                         *)
(* A frame is described by what the decoding steps ask of it.              *)
(***************************************************************************)

MaxFrames == 3

\* Frames that are not text (binary, ping, pong, close).
NonTextFrames == {[kind |-> "non_text"]}

\* Text that does not deserialize as a Push: not JSON, no `arg`, a `data`
\* array that does not hold exactly one element.
UnparsableFrames == {[kind |-> "unparsable"]}

\* A Push whose `event` is present.
EventFrames == {[kind |-> "event", event |-> ev] : ev \in {"subscribe", "login", "error"}}

\* A Push of the trades or the orders channel: `data` may be missing, and its
\* one element may or may not deserialize and convert.
PlainDataFrames ==
    [kind : {"data"}, channel : {"trades", "orders"}, has_data : BOOLEAN,
     converts : BOOLEAN]

\* A Push of the bbo-tbt channel: the element deserializes as DepthData when
\* `deser` holds, and then has a `ts` string, n_bids bids and n_asks asks
\* whose number strings parse or do not.
BboFrames ==
    [kind : {"data"}, channel : {"bbo-tbt"}, has_data : BOOLEAN, deser : BOOLEAN,
     ts_ok : BOOLEAN, n_bids : 0..1, bid_ok : BOOLEAN, n_asks : 0..1,
     ask_ok : BOOLEAN]

Frames == NonTextFrames \cup UnparsableFrames \cup EventFrames
              \cup PlainDataFrames \cup BboFrames

\* DepthData::try_into_bbo: the fields are evaluated in the order written;
\* `?` returns Err, and indexing an empty Vec with [0] panics.
TryIntoBbo(f) ==
    IF ~f.ts_ok THEN "Err"
    ELSE IF f.n_bids = 0 THEN "panic"
    ELSE IF ~f.bid_ok THEN "Err"
    ELSE IF f.n_asks = 0 THEN "panic"
    ELSE IF ~f.ask_ok THEN "Err"
    ELSE "Ok"

\* Data::try_from_okx_push: try_from_push, then try_from_okx_data.
TryFromOkxPush(f) ==
    IF ~f.has_data THEN "Err"
    ELSE IF f.channel = "bbo-tbt"
    THEN IF f.deser THEN TryIntoBbo(f) ELSE "Err"
    ELSE IF f.converts THEN "Ok" ELSE "Err"

\* Steps 3 to 6 of the loop body for one frame: "continue", "Some" or "panic".
Decode(f) ==
    IF f.kind \in {"non_text", "unparsable", "event"} THEN "continue"
    ELSE IF TryFromOkxPush(f) = "Ok" THEN "Some"
    ELSE IF TryFromOkxPush(f) = "Err" THEN "continue"
    ELSE "panic"

\* An OkxWsStream over a connection that has yielded nothing yet.
DInit == codec = [pc |-> "idle", ret |-> "none", last |-> None, n |-> 0]

\* One turn of the loop of poll_next: the inner stream is Pending, has ended,
\* yields a transport error, or yields a frame.
DPollNext ==
    /\ codec.ret \notin {"None", "panic"}
    /\ \/ codec' = [codec EXCEPT !.pc = "idle", !.ret = "Pending", !.last = Some("pending")]
       \/ codec' = [codec EXCEPT !.pc = "idle", !.ret = "None", !.last = Some("end")]
       \/ codec' = [codec EXCEPT !.pc = "idle", !.ret = "None", !.last = Some("ws_error")]
       \/ /\ codec.n < MaxFrames
          /\ \E f \in Frames :
                codec' = [pc |-> IF Decode(f) = "continue" THEN "loop" ELSE "idle",
                          ret |-> IF Decode(f) = "continue" THEN "none" ELSE Decode(f),
                          last |-> Some(f), n |-> codec.n + 1]

\* C27: the stream ends only when the inner stream has ended or failed, and
\* never aborts: whatever a frame holds, it is either yielded as a canonical
\* event or discarded with the loop going on to the next frame.
C27_ContentNeverEndsStream ==
    /\ codec.ret # "panic"
    /\ codec.ret = "None" => codec.last \in {Some("end"), Some("ws_error")}

NextCodec ==
    DPollNext /\ UNCHANGED <<rvars, mvars, bvars, avars, svars, evars, hb, wsa, conn, l1s, det, rc, seam, nb>>

InitCodec ==
    /\ DInit /\ RParked /\ MParked /\ BParked /\ AParked /\ SParked
    /\ hb = <<>> /\ wsa = <<>> /\ conn = <<>> /\ l1s = <<>> /\ det = <<>> /\ rc = <<>> /\ seam = <<>> /\ nb = <<>>

SpecCodec == InitCodec /\ [][NextCodec]_vars

(***************************************************************************)
(*          Level1Stream (src/data_center/src/types.rs:140-212)            *)
(*                                                                         *)
(* Sizes and prices are whole numbers; the weighted price, a quotient, is  *)
(* kept as numerator and denominator.                                      *)
(***************************************************************************)

MaxL1Inputs == 4
TradePrices == {1, 3}
TradeSizes == {1, 2}
OrderCounts == {1, 2}

Ratio(num, den) == [num |-> num, den |-> den]

\* Two quotients are the same number.
SameRatio(a, b) == a.num * b.den = b.num * a.den

\* Level1Stream::new
Level1StreamNew ==
    [weighted_price |-> Ratio(0, 1), volume |-> 0, buying_volume |-> 0,
     selling_volume |-> 0,
     since |-> <<>>, out |-> None, n |-> 0, n_bbo |-> 0, n_out |-> 0]

LInit == l1s = Level1StreamNew

\* Either::Right(trade): the accumulators take the trade in.
\* weighted_price * volume is the numerator kept (0 while volume is 0).
AccumulateTrade(l, trade) ==
    [l EXCEPT
       !.weighted_price =
           Ratio((IF l.volume = 0 THEN 0 ELSE l.weighted_price.num)
                   + trade.price * trade.size * trade.order_count,
                 l.volume + trade.size * trade.order_count),
       !.volume = l.volume + trade.size * trade.order_count,
       !.buying_volume = IF trade.side THEN @ + trade.size ELSE @,
       !.selling_volume = IF trade.side THEN @ ELSE @ + trade.size]

\* Either::Left(bbo): the Level1 is built, weighted_price and volume are set
\* to zero, and the Level1 is returned.
EmitLevel1(l, bbo) ==
    [l EXCEPT
       !.out = Some([bbo |-> bbo, last_price |-> l.weighted_price,
                     volume |-> l.volume, buying_volume |-> l.buying_volume,
                     selling_volume |-> l.selling_volume, over |-> l.since]),
       !.weighted_price = Ratio(0, 1),
       !.volume = 0]

\* One turn of the loop of poll_next on a trade: the loop goes on.
LTrade ==
    /\ l1s.n < MaxL1Inputs
    /\ \E price \in TradePrices, size \in TradeSizes, count \in OrderCounts,
          side \in BOOLEAN :
          l1s' = [AccumulateTrade(l1s, [price |-> price, size |-> size,
                                        order_count |-> count, side |-> side])
                    EXCEPT !.since = Append(l1s.since,
                                            [price |-> price, size |-> size,
                                             order_count |-> count, side |-> side]),
                           !.n = l1s.n + 1]

\* One turn of the loop of poll_next on a BBO: a Level1 is returned.
LBbo ==
    /\ l1s.n < MaxL1Inputs
    /\ l1s' = [EmitLevel1(l1s, l1s.n_bbo + 1)
                 EXCEPT !.since = <<>>, !.n = l1s.n + 1,
                        !.n_bbo = l1s.n_bbo + 1, !.n_out = l1s.n_out + 1]

\* Sums over the trades of a sequence.
RECURSIVE SumSizeCount(_)
SumSizeCount(trades) ==
    IF trades = <<>> THEN 0
    ELSE Head(trades).size * Head(trades).order_count + SumSizeCount(Tail(trades))

RECURSIVE SumPriceSizeCount(_)
SumPriceSizeCount(trades) ==
    IF trades = <<>> THEN 0
    ELSE Head(trades).price * Head(trades).size * Head(trades).order_count
           + SumPriceSizeCount(Tail(trades))

RECURSIVE SumSizeOfSide(_, _)
SumSizeOfSide(trades, side) ==
    IF trades = <<>> THEN 0
    ELSE (IF Head(trades).side = side THEN Head(trades).size ELSE 0)
           + SumSizeOfSide(Tail(trades), side)

\* C30: one Level1 has been emitted per BBO taken, and the Level1 last
\* emitted carries its BBO with the weighted price, the volume, the buying
\* volume and the selling volume of exactly the trades taken since the BBO
\* before it.
C30_Level1OverTradesSinceBbo ==
    /\ l1s.n_out = l1s.n_bbo
    /\ l1s.out # None =>
          /\ l1s.out[1].bbo = l1s.n_bbo
          /\ l1s.out[1].volume = SumSizeCount(l1s.out[1].over)
          /\ l1s.out[1].over # <<>> =>
                SameRatio(l1s.out[1].last_price,
                          Ratio(SumPriceSizeCount(l1s.out[1].over),
                                SumSizeCount(l1s.out[1].over)))
          /\ l1s.out[1].over = <<>> => l1s.out[1].last_price.num = 0
          /\ l1s.out[1].buying_volume = SumSizeOfSide(l1s.out[1].over, TRUE)
          /\ l1s.out[1].selling_volume = SumSizeOfSide(l1s.out[1].over, FALSE)

NextLevel1 ==
    \/ LTrade /\ UNCHANGED <<rvars, mvars, bvars, avars, svars, evars, hb, wsa, conn, codec, det, rc, seam, nb>>
    \/ LBbo /\ UNCHANGED <<rvars, mvars, bvars, avars, svars, evars, hb, wsa, conn, codec, det, rc, seam, nb>>

InitLevel1 ==
    /\ LInit /\ RParked /\ MParked /\ BParked /\ AParked /\ SParked
    /\ hb = <<>> /\ wsa = <<>> /\ conn = <<>> /\ codec = <<>> /\ det = <<>> /\ rc = <<>> /\ seam = <<>> /\ nb = <<>>

SpecLevel1 == InitLevel1 /\ [][NextLevel1]_vars

(***************************************************************************)
(*       Two runs of one SandboxBroker (src/ac_core/src/backtest.rs)       *)
(*                                                                         *)
(* The first run takes any inputs and logs them with the outcome after     *)
(* each; the broker is then built anew with the same parameters and the    *)
(* second run is given the logged inputs.                                  *)
(***************************************************************************)

\* What the claim compares: the events emitted, the cash, the portfolio and
\* the reporter's history.
Outcome(ev, c, p, r) ==
    [emitted |-> ev, cash |-> c, portfolio |-> p, history |-> r.value_history,
     value_buf |-> r.value_buf]

\* Both runs are to come; the hasher ranks the order ids one way or another.
TInit ==
    \E rank \in {f \in [OrderIds -> 1..Cardinality(OrderIds)] :
                     \A x, y \in OrderIds : f[x] = f[y] => x = y} :
       det = [run |-> 1, rank |-> rank, log |-> <<>>, trace |-> <<>>, k |-> 0]

\* The client events of the first run: cancellations, amendments to the bid a
\* later quote brings, and limit orders to sell at that bid, so that several
\* orders rest until one data step.
TwoRunEvents ==
    {ev \in ClientEvents :
        \/ ev.type = "CancelOrder"
        \/ /\ ev.type # "CancelOrder"
           /\ ev.order.kind = "Limit"
           /\ \E q \in Quotes \ {InitQuote} : ev.order.order.price = q[1]
           /\ ev.type = "PlaceOrder" => ~ev.order.order.side}

\* The first run, up to the end of its data: the input of the step and the
\* outcome after it are logged.
TLog ==
    /\ det.run = 1
    /\ ~dp_ended
    /\ b_last'.type \in {"PlaceOrder", "AmendOrder", "CancelOrder"}
          => b_last' \in TwoRunEvents
    /\ det' = [det EXCEPT !.log = Append(@, b_last'),
                          !.trace = Append(@, Outcome(emitted', cash', portfolio',
                                                      reporter'))]

\* The second run: the step takes the next logged input.
TReplay ==
    /\ det.run = 2
    /\ det.k < Len(det.log)
    /\ b_last' = det.log[det.k + 1]
    /\ det' = [det EXCEPT !.k = @ + 1]

TSendPlaceOrder == SendPlaceOrder /\ (TLog \/ TReplay)
TSendAmendOrder == SendAmendOrder /\ (TLog \/ TReplay)
TSendCancelOrder == SendCancelOrder /\ (TLog \/ TReplay)
TPollNext == PollNext /\ (TLog \/ TReplay)

\* SandboxBroker::new again, over the same data and with the same parameters.
TSecondRun ==
    /\ det.run = 1
    /\ dp_ended
    /\ limit_orders' = <<>>
    /\ broker_events_buf' = <<>>
    /\ inst_matcher' = [i \in Insts |-> Bbo(InitTs, i, InitQuote[1], InitQuote[2])]
    /\ dp_index' = 0
    /\ dp_ended' = FALSE
    /\ b_ts' = InitTs
    /\ cash' = InitCash * CashUnit
    /\ portfolio' = <<>>
    /\ reporter' = ReporterInsert(ReporterNew(ReportFrequency), InitTs,
                                  InitCash * CashUnit)
    /\ emitted' = <<>>
    /\ n_inputs' = 0
    /\ b_last' = [type |-> "new"]
    /\ det' = [det EXCEPT !.run = 2]
    /\ UNCHANGED <<tcm, r_calls>>

NextTwoRuns ==
    \/ TSendPlaceOrder /\ UNCHANGED <<mvars, avars, svars, evars, hb, wsa, conn, codec, l1s, rc, seam, nb>>
    \/ TSendAmendOrder /\ UNCHANGED <<mvars, avars, svars, evars, hb, wsa, conn, codec, l1s, rc, seam, nb>>
    \/ TSendCancelOrder /\ UNCHANGED <<mvars, avars, svars, evars, hb, wsa, conn, codec, l1s, rc, seam, nb>>
    \/ TPollNext /\ UNCHANGED <<mvars, avars, svars, evars, hb, wsa, conn, codec, l1s, rc, seam, nb>>
    \/ TSecondRun /\ UNCHANGED <<mvars, avars, svars, evars, hb, wsa, conn, codec, l1s, rc, seam, nb>>

InitTwoRuns ==
    /\ BInit /\ TInit /\ MParked /\ AParked /\ SParked
    /\ hb = <<>> /\ wsa = <<>> /\ conn = <<>> /\ codec = <<>> /\ l1s = <<>> /\ rc = <<>> /\ seam = <<>> /\ nb = <<>>

SpecTwoRuns == InitTwoRuns /\ [][NextTwoRuns]_vars

(***************************************************************************)
(*    The calls of AutoReconnect, one by one (src/data_center/src/utils.rs) *)
(*                                                                         *)
(* The connections are not numbered and nothing is kept of what was sent   *)
(* or received, so that a call which goes round its loop for ever is a     *)
(* cycle of states.  Each turn of a loop is a step.                        *)
(***************************************************************************)

\* The items start_send may be given, and at most how many wait in sink_buf.
RcItems == {1, 2}
MaxBuf == 2

\* AutoReconnect::new
RcInit ==
    rc = [curr_conn |-> TRUE, conn_future |-> "None", sink_buf |-> <<>>,
          pc |-> "idle", ret |-> "none"]

\* close_conn_and_set_conn_future, on the record r
RcCloseConnAndSetConnFuture(r) ==
    [r EXCEPT !.curr_conn = FALSE, !.conn_future = "Pending"]

\* The call in progress returns ret / goes round its loop again.
RcReturn(r, ret) == [r EXCEPT !.pc = "idle", !.ret = ret]
RcContinue(r, name) == [r EXCEPT !.pc = name, !.ret = "none"]

\* poll_set_conn, one turn of its loop, inside the call `name`: the future
\* is pending, or gives a connection, or fails and is replaced.
RcPollSetConn(name) ==
    IF rc.conn_future # "Pending"
    THEN rc' = RcReturn(rc, "panic")
    ELSE \/ rc' = RcReturn(rc, "Pending")
         \/ rc' = RcContinue([rc EXCEPT !.curr_conn = TRUE,
                                         !.conn_future = "Completed"], name)
         \/ rc' = RcContinue(RcCloseConnAndSetConnFuture(rc), name)

RcResumes(name) == rc.pc \in {"idle", name}

\* Stream::poll_next, one turn of its loop.
RcPollNext ==
    /\ RcResumes("poll_next")
    /\ IF rc.curr_conn
       THEN \/ rc' = RcReturn(rc, "Some")
            \/ rc' = RcContinue(RcCloseConnAndSetConnFuture(rc), "poll_next")
            \/ rc' = RcReturn(rc, "Pending")
       ELSE RcPollSetConn("poll_next")

\* Sink::poll_ready, one turn of its loop.
RcPollReady ==
    /\ RcResumes("poll_ready")
    /\ IF rc.curr_conn
       THEN \E r \in InnerPolls : rc' = RcReturn(rc, r)
       ELSE RcPollSetConn("poll_ready")

\* Sink::start_send
RcStartSend ==
    /\ rc.pc = "idle"
    /\ Len(rc.sink_buf) < MaxBuf
    /\ \E item \in RcItems :
          rc' = [rc EXCEPT !.sink_buf = Append(@, item), !.ret = "Ok"]

\* Sink::poll_flush, one turn of its loops: one item offered to the inner
\* sink, or the inner poll_flush, or one turn of poll_set_conn.
RcPollFlush ==
    /\ RcResumes("poll_flush")
    /\ IF rc.curr_conn
       THEN IF rc.sink_buf # <<>>
            THEN \/ rc' = RcContinue([rc EXCEPT !.sink_buf = Tail(@)], "poll_flush")
                 \/ rc' = RcContinue(
                            RcCloseConnAndSetConnFuture(
                              [rc EXCEPT !.sink_buf = Append(Tail(@), Head(@))]),
                            "poll_flush")
            ELSE \E r \in InnerPolls : rc' = RcReturn(rc, r)
       ELSE RcPollSetConn("poll_flush")

\* C34: every call of poll_next, poll_ready and poll_flush returns, whatever
\* the factory's futures, the new connections and the inner sink do.
C34_EveryCallReturns == (rc.pc # "idle") ~> (rc.pc = "idle")

NextCalls ==
    \/ RcPollNext /\ UNCHANGED <<rvars, mvars, bvars, avars, svars, evars, hb, wsa, conn, codec, l1s, det, seam, nb>>
    \/ RcPollReady /\ UNCHANGED <<rvars, mvars, bvars, avars, svars, evars, hb, wsa, conn, codec, l1s, det, seam, nb>>
    \/ RcStartSend /\ UNCHANGED <<rvars, mvars, bvars, avars, svars, evars, hb, wsa, conn, codec, l1s, det, seam, nb>>
    \/ RcPollFlush /\ UNCHANGED <<rvars, mvars, bvars, avars, svars, evars, hb, wsa, conn, codec, l1s, det, seam, nb>>

InitCalls ==
    /\ RcInit /\ RParked /\ MParked /\ BParked /\ AParked /\ SParked
    /\ hb = <<>> /\ wsa = <<>> /\ conn = <<>> /\ codec = <<>> /\ l1s = <<>> /\ det = <<>> /\ seam = <<>> /\ nb = <<>>

\* The thread that makes a call runs it: a step that can be taken is taken.
SpecCalls == InitCalls /\ [][NextCalls]_vars /\ WF_vars(NextCalls)

(***************************************************************************)
(*  The Terminal feeding OfiMomentum and the executor                      *)
(*  (src/data_center/src/terminal.rs,                                      *)
(*   src/ac_core/src/strategy/single_ticker/ofi_momentum.rs)               *)
(*                                                                         *)
(* The Terminal yields the items of its history stream and after them the  *)
(* items of its live stream; each stream is in time order, and nothing     *)
(* relates the first live timestamp to the last historical one.  The EMAs  *)
(* of the signaler are left out: once warmed up it may give any signal.    *)
(***************************************************************************)

\* OfiMomentum::warm_up_duration, in the time units of the executor.
WarmUpDuration == 1

\* Terminal::new_okx and OfiMomentum::new.  subs holds the Timestamp
\* subtractions of the last on_event call, each as <<left, right>>.
SeamInit ==
    seam = [is_history_ended |-> FALSE, first_ts |-> None, variables_ts |-> None,
            subs |-> <<>>, panicked |-> FALSE]

\* OfiMomentum::on_data, the timestamps it keeps.
SignalerOnData(sg, ts) ==
    [sg EXCEPT !.first_ts = IF @ = None THEN Some(ts) ELSE @,
               !.variables_ts = Some(ts)]

\* OfiMomentum::on_data answers with a signal: not on the first data, and
\* only once the warm-up is over.
SignalerReady(sg, ts) ==
    /\ sg.variables_ts # None
    /\ TsSub(ts, sg.first_ts[1]) > WarmUpDuration

\* The subtractions of Variables::update and of on_data's elapsed.
SignalerSubs(sg, ts) ==
    IF sg.variables_ts = None THEN <<>>
    ELSE << <<ts, sg.variables_ts[1]>>, <<ts, sg.first_ts[1]>> >>

\* The subtractions of on_signal and get_ideal_position; ex has taken the
\* Data event.
ExecutorSubs(ex, signal) ==
    << <<ex.bbo.ts, ex.last_event_ts>> >>
    \o (IF /\ ~ExIsCooling(ex)
           /\ signal = None
           /\ ~IsClear(ex.position, ex.size_eps)
        THEN << <<ex.bbo.ts, ex.last_signal_ts>> >>
        ELSE <<>>)

Underflows(subs) == \E n \in DOMAIN subs : subs[n][1] < subs[n][2]

\* One item of the Terminal given to the strategy: the signaler's on_data,
\* then Strategy::on_event.  Where a subtraction underflows a release build
\* goes on with the wrapped difference and a debug build panics.
SeamOnData(ts, live) ==
    /\ s_n < MaxEvents
    /\ ~seam.panicked
    /\ \E q \in ExQuotes, answer \in Signals :
          LET event == EvData(Bbo(ts, ExInst, q[1], q[2]), 0)
              signal == IF SignalerReady(seam, ts) THEN answer ELSE None
              subs == SignalerSubs(seam, ts)
                        \o ExecutorSubs(ExUpdate(executor, event), signal)
          IN  \/ /\ OnEventDone(StrategyOnEvent(executor, s_last_event_ts, event,
                                                signal, ts),
                                event, signal, ts)
                 /\ seam' = [SignalerOnData(seam, ts) EXCEPT
                                !.subs = subs, !.is_history_ended = live]
              \/ /\ Underflows(subs)
                 /\ seam' = [seam EXCEPT !.subs = subs, !.is_history_ended = live,
                                         !.panicked = TRUE]
                 /\ UNCHANGED svars

\* Terminal::poll_next: the history stream has an item.
THistory ==
    /\ ~seam.is_history_ended
    /\ \E dt \in ExTsSteps : SeamOnData(DataTs(executor, dt), FALSE)

\* Terminal::poll_next: the history stream has ended, the item is the live
\* stream's.  The first live item is stamped before or after the last
\* historical one.
TLive ==
    IF seam.is_history_ended \/ seam.variables_ts = None
    THEN \E dt \in ExTsSteps : SeamOnData(DataTs(executor, dt), TRUE)
    ELSE \E ts \in {executor.bbo.ts - 1, executor.bbo.ts + 1} : SeamOnData(ts, TRUE)

\* on_event with a Fill event.
TFill == ~seam.panicked /\ SOnFill /\ UNCHANGED seam

\* C39: no Timestamp subtraction of the signaler or of the executor is taken
\* with its left operand below its right one, whatever the Terminal yields.
C39_NoUnderflow == ~Underflows(seam.subs)

NextSeam ==
    \/ THistory /\ UNCHANGED <<rvars, mvars, bvars, avars, evars, hb, wsa, conn, codec, l1s, det, rc, nb>>
    \/ TLive /\ UNCHANGED <<rvars, mvars, bvars, avars, evars, hb, wsa, conn, codec, l1s, det, rc, nb>>
    \/ TFill /\ UNCHANGED <<rvars, mvars, bvars, avars, evars, hb, wsa, conn, codec, l1s, det, rc, nb>>

InitSeam ==
    /\ SInit /\ SeamInit /\ RParked /\ MParked /\ BParked /\ AParked
    /\ hb = <<>> /\ wsa = <<>> /\ conn = <<>> /\ codec = <<>> /\ l1s = <<>> /\ det = <<>> /\ rc = <<>> /\ nb = <<>>

SpecSeam == InitSeam /\ [][NextSeam]_vars

(***************************************************************************)
(*          SandboxBroker::new (src/ac_core/src/backtest.rs:49-83)         *)
(*                                                                         *)
(* The data provider is a finite stream; each turn of the while loop is a  *)
(* step.                                                                   *)
(***************************************************************************)

\* The longest data stream given to new.
MaxNewLen == 3

\* The instruments argument, and what an item of the data can be: the BBO of
\* an instrument, or data from which no matcher is drawn.
NewInstruments == <<"EthUsdtSwap", "BtcUsdtSwap">>
NewItemKinds == {"EthUsdtSwap", "BtcUsdtSwap", "NoMatcher"}

\* The data streams: item n is stamped InitTs + n.
NewStreams ==
    UNION {[1..len -> NewItemKinds] : len \in 0..MaxNewLen}

\* The entry of new: let mut inst_matcher = FxHashMap::default(); let mut ts = 0
NewEntry ==
    \E stream \in NewStreams :
       nb = [pc |-> "loop", stream |-> stream, taken |-> 0, inst_matcher |-> {},
             ts |-> 0, reporter |-> ReporterNew(ReportFrequency), starved |-> FALSE]

\* while inst_matcher.len() < instruments.len(): the data provider has an item.
NewTakeData ==
    /\ nb.pc = "loop"
    /\ Cardinality(nb.inst_matcher) < Len(NewInstruments)
    /\ nb.taken < Len(nb.stream)
    /\ nb' = IF nb.stream[nb.taken + 1] = "NoMatcher"
             THEN [nb EXCEPT !.taken = @ + 1]
             ELSE [nb EXCEPT !.taken = @ + 1,
                             !.ts = InitTs + nb.taken + 1,
                             !.inst_matcher = @ \cup {nb.stream[nb.taken + 1]}]

\* while inst_matcher.len() < instruments.len(): the data provider has ended;
\* the error is logged and the loop goes round.
NewNoData ==
    /\ nb.pc = "loop"
    /\ Cardinality(nb.inst_matcher) < Len(NewInstruments)
    /\ nb.taken = Len(nb.stream)
    /\ nb' = [nb EXCEPT !.starved = TRUE]

\* After the loop: the reporter is made and seeded, and new returns.
NewReturn ==
    /\ nb.pc = "loop"
    /\ Cardinality(nb.inst_matcher) >= Len(NewInstruments)
    /\ nb' = [nb EXCEPT !.pc = "done",
                        !.reporter = ReporterInsert(@, nb.ts, InitCash * CashUnit)]

\* C40: new returns for every finite data stream, also for one that ends
\* before a BBO of every instrument was seen.
C40_NewReturns == <>(nb.pc = "done")

NextNew ==
    \/ NewTakeData /\ UNCHANGED <<rvars, mvars, bvars, avars, svars, evars, hb, wsa, conn, codec, l1s, det, rc, seam>>
    \/ NewNoData /\ UNCHANGED <<rvars, mvars, bvars, avars, svars, evars, hb, wsa, conn, codec, l1s, det, rc, seam>>
    \/ NewReturn /\ UNCHANGED <<rvars, mvars, bvars, avars, svars, evars, hb, wsa, conn, codec, l1s, det, rc, seam>>

InitNew ==
    /\ NewEntry /\ RParked /\ MParked /\ BParked /\ AParked /\ SParked
    /\ hb = <<>> /\ wsa = <<>> /\ conn = <<>> /\ codec = <<>> /\ l1s = <<>> /\ det = <<>> /\ rc = <<>> /\ seam = <<>>

\* new is awaited to its end: a turn of the loop that can be taken is taken.
SpecNew == InitNew /\ [][NextNew]_vars /\ WF_vars(NextNew)

====
